---- MODULE Spec2Model ----
(***************************************************************************)
(* Model of the two algorithmic cores of sfs-marketing-and-growth:         *)
(*   - the booking-reminder scheduler job _send_booking_reminders (app.py) *)
(*     with its notifier helpers (onboarding.py) and ORM rows (models.py); *)
(*   - the A/B testing engine ABTestingManager (ab_testing.py) and its     *)
(*     HTTP entry point create_experiment (app.py).                        *)
(* Time is counted in whole minutes.  Optional values (NULL columns,       *)
(* Optional[...] arguments) are sequences of length 0 or 1.                *)
(***************************************************************************)
EXTENDS Integers, Sequences, FiniteSets, TLC

None == <<>>
Some(x) == <<x>>

(***************************************************************************)
(* Bounds of the model.                                                    *)
(***************************************************************************)
\* number of firings of the scheduler job that are explored
MaxRuns == 3
\* number of database exceptions injected over a behaviour
MaxFaults == 1
\* longest variant_names, variant_descriptions and traffic_allocation lists
MaxVariants == 3
\* number of experiments created over a behaviour
MaxExperiments == 1
\* impressions and conversions recorded over a behaviour, over all variants
MaxRecorded == 4
\* largest chi-squared statistic the p-value lookup is applied to, in hundredths
MaxChi == 1200
\* time units that pass while the lifecycle calls or the requests are made
MaxClock == 2
\* number of is_allowed calls over a behaviour
MaxCalls == 5
\* number of record_impression / record_conversion calls made concurrently
MaxCallers == 2
\* number of times the scheduler process dies over a behaviour
MaxCrashes == 1

(***************************************************************************)
(* Program constants of the reminder scheduler.                            *)
(***************************************************************************)
\* scheduler.add_job(..., "interval", minutes=5)
Period == 5
\* win_end = win_start + timedelta(minutes=5)
WindowMinutes == 5
\* hours = int(s.reminder_hours_before or 24); also the column default
DefaultReminderHours == 24
\* timedelta(hours=hours), in the model's minutes
MinutesPerHour == 60

Channels == {"email", "sms"}
Statuses == {"confirmed", "cancelled", "completed"}

\* Tenant.query.all(): the tenants, in the order the query returns them
tenant_ids == <<1, 2>>
Tenants == {tenant_ids[k] : k \in 1..Len(tenant_ids)}
BookingIds == {1, 2, 3}
\* the scheduler instances that fire the job (one BackgroundScheduler)
Instances == {1}

\* minutes between two consecutive firings that the model explores:
\* a restart shortly after a firing, and the regular interval
Gaps == {2, Period}
\* start_at of a booking, relative to the first firing's win_start
Offsets == {0, 4, 5}

VARIABLES
    clock,        \* datetime.utcnow(), minutes since the first firing
    config,       \* Config: which provider credentials are set
    settings,     \* notification_settings rows, by tenant (None: no row)
    bookings,     \* bookings rows, by id
    reminderLog,  \* reminder_logs rows, in insertion order
    run,          \* per scheduler instance: position in the job and locals
    faults,       \* database exceptions injected so far
    \* history variables (observations of the behaviour, not program state)
    runNo,        \* number of firings so far
    lastGap,      \* minutes between the last two firings
    regular,      \* every gap between firings so far was exactly Period
    cand,         \* per booking: number of firings whose query returned it
    sends,        \* per (booking, channel): attempts, last result, last run
    skipped,      \* (booking, channel) pairs a lookup has found logged
    processed,    \* per tenant: last firing that ran its query
    raised,       \* firing and tenant of the last unhandled exception
    \* A/B testing engine
    experiments,  \* data/experiments/<id>.json: the persisted records, by id
    lastCall,     \* history: the arguments and outcome of the last engine call
    lastResults,  \* history, per experiment id: what get_results returned last,
                  \* None once an impression or conversion was recorded since
    callers,      \* concurrent record_impression / record_conversion calls: the
                  \* position of each and the Experiment object it holds
    \* security.py rate limiter
    memory_store, \* RateLimiter.memory_store: {key: {'count', 'expires'}}
    requests,     \* history: the is_allowed calls made, per identifier and route
    \* history of the scheduler's mishaps
    incidents     \* (booking, channel) pairs whose send was followed by a crash
                  \* before the insert, and pairs whose insert was rejected

abVars == <<experiments, lastCall, lastResults>>

\* the variables of the rate limiter, of the concurrent callers and of the
\* scheduler's mishaps
rlVars == <<memory_store, requests>>
otherVars == <<rlVars, callers, incidents>>

schedVars == <<clock, config, settings, bookings, reminderLog, run, faults,
               runNo, lastGap, regular, cand, sends, skipped, processed, raised>>

vars == <<schedVars, abVars, otherVars>>

(***************************************************************************)
(* models.py rows and app.py helpers                                       *)
(***************************************************************************)
\* NotificationSettings(tenant_id=...) with the column defaults
DefaultSettings ==
    [email_enabled |-> TRUE, sms_enabled |-> FALSE,
     reminder_hours_before |-> Some(DefaultReminderHours)]

\* get_or_create_notif_settings: the table after the call
SettingsAfterGet(st, tid) ==
    IF st[tid] = None THEN [st EXCEPT ![tid] = Some(DefaultSettings)] ELSE st

\* get_or_create_notif_settings: the row returned
get_or_create_notif_settings(st, tid) == SettingsAfterGet(st, tid)[tid][1]

\* notif_ok(tenant_id, channel)
notif_ok(st, cfg, tid, channel) ==
    LET s == get_or_create_notif_settings(st, tid) IN
    IF channel = "email" THEN s.email_enabled
    ELSE IF channel = "sms" THEN s.sms_enabled /\ cfg.twilio
    ELSE FALSE

\* int(s.reminder_hours_before or 24)
ReminderHours(s) ==
    IF s.reminder_hours_before = None THEN DefaultReminderHours
    ELSE IF s.reminder_hours_before[1] = 0 THEN DefaultReminderHours
    ELSE s.reminder_hours_before[1]

\* win_start = now + timedelta(hours=hours)
WinStart(now, hours) == now + hours * MinutesPerHour

\* mutant of WinEnd: the window is one minute narrower than the job's interval
WinEndFourMinutes(now, hours) == WinStart(now, hours) + 4

\* win_end = win_start + timedelta(minutes=5)
WinEnd(now, hours) == WinStart(now, hours) + WindowMinutes

\* mutant of IsCandidate: the window is closed at win_end
IsCandidateClosedEnd(b, tid, now, hours) ==
    /\ b.tenant_id = tid
    /\ b.status = "confirmed"
    /\ b.start_at >= WinStart(now, hours)
    /\ b.start_at <= WinEnd(now, hours)

\* the filter of the candidates query
IsCandidate(b, tid, now, hours) ==
    /\ b.tenant_id = tid
    /\ b.status = "confirmed"
    /\ b.start_at >= WinStart(now, hours)
    /\ b.start_at < WinEnd(now, hours)

\* ids of a set of bookings as a list, in id order
RECURSIVE SortedIds(_)
SortedIds(S) ==
    IF S = {} THEN <<>>
    ELSE LET m == CHOOSE x \in S : \A y \in S : x <= y
         IN <<m>> \o SortedIds(S \ {m})

\* Booking.query.filter(...).all()
Candidates(bk, tid, now, hours) ==
    SortedIds({b \in DOMAIN bk : IsCandidate(bk[b], tid, now, hours)})

\* mutant of Already: the lookup filters on the other kind of reminder
AlreadyKindAfter(log, bid, channel) ==
    \E k \in 1..Len(log) :
        /\ log[k].booking_id = bid
        /\ log[k].channel = channel
        /\ log[k].kind = "after"

\* ReminderLog.query.filter_by(booking_id=, channel=, kind="before").first()
Already(log, bid, channel) ==
    \E k \in 1..Len(log) :
        /\ log[k].booking_id = bid
        /\ log[k].channel = channel
        /\ log[k].kind = "before"

\* UniqueConstraint('booking_id','channel','kind')
ViolatesUnique(log, row) ==
    \E k \in 1..Len(log) :
        /\ log[k].booking_id = row.booking_id
        /\ log[k].channel = row.channel
        /\ log[k].kind = row.kind

\* ReminderLog(tenant_id=tid, booking_id=b.id, channel=..., kind="before")
NewLogRow(tid, bid, channel, now) ==
    [tenant_id |-> tid, booking_id |-> bid, channel |-> channel,
     kind |-> "before", sent_at |-> now]

\* mutant of InsertLog: the table has no unique constraint
InsertLogNoConstraint(log, row) == Append(log, row)

\* db.session.add(row); db.session.commit(): the table afterwards
\* (a row that breaks the unique constraint is rejected)
InsertLog(log, row) ==
    IF ViolatesUnique(log, row) THEN log ELSE Append(log, row)

\* the commit goes through: the row is in the table afterwards
Accepted(log, row) == InsertLog(log, row) # log

\* send_email_smtp: the results it can return
EmailResults(cfg) == IF cfg.smtp THEN {TRUE, FALSE} ELSE {FALSE}

\* send_twilio_message: the results it can return
SmsResults(cfg) == IF cfg.twilio THEN {TRUE, FALSE} ELSE {FALSE}

(***************************************************************************)
(* The scheduler job, one step per database or provider call               *)
(***************************************************************************)
IdleRun == [pc |-> "idle", now |-> 0, tidx |-> 0, cands |-> <<>>, bidx |-> 0]

CurTenant(r) == tenant_ids[r.tidx]
CurBooking(r) == r.cands[r.bidx]

\* mutant of ChannelOn: the customer's address or number is not looked at
ChannelOnAnyContact(st, cfg, b, tid, channel) == notif_ok(st, cfg, tid, channel)

\* if notif_ok(tid, <channel>) and b.customer_email / b.customer_phone:
ChannelOn(st, cfg, b, tid, channel) ==
    /\ notif_ok(st, cfg, tid, channel)
    /\ IF channel = "email" THEN b.customer_email ELSE b.customer_phone

\* the position after the current booking's channels: next booking, or next tenant
AfterBooking(r) ==
    IF r.bidx < Len(r.cands)
    THEN [r EXCEPT !.bidx = r.bidx + 1, !.pc = "email"]
    ELSE [r EXCEPT !.tidx = r.tidx + 1, !.cands = <<>>, !.bidx = 0, !.pc = "tenant"]

NoSend == [n |-> 0, last |-> "none", run |-> 0]

\* the history of a send attempt
Attempt(s, key, ok, no) ==
    [s EXCEPT ![key] = [n |-> s[key].n + 1,
                        last |-> IF ok THEN "sent" ELSE "notsent",
                        run |-> no]]

HistUnchanged == UNCHANGED <<runNo, lastGap, regular, cand, sends, skipped, processed, raised>>
DataUnchanged == UNCHANGED <<clock, config, bookings, abVars, otherVars>>

\* the interval trigger fires _send_booking_reminders
Fire(i, d) ==
    /\ \A j \in Instances : run[j].pc = "idle"
    /\ runNo < MaxRuns
    /\ IF runNo = 0 THEN d = 0 ELSE d \in Gaps
    /\ clock' = clock + d
    /\ run' = [run EXCEPT ![i] = [pc |-> "tenant", now |-> clock + d, tidx |-> 1,
                                  cands |-> <<>>, bidx |-> 0]]
    /\ runNo' = runNo + 1
    /\ lastGap' = d
    /\ regular' = (regular /\ (runNo = 0 \/ d = Period))
    /\ UNCHANGED <<config, settings, bookings, reminderLog, faults,
                   cand, sends, skipped, processed, raised, abVars, otherVars>>

\* for tid in tenant_ids: settings, window, candidates query
LoadTenant(i) ==
    /\ run[i].pc = "tenant"
    /\ run[i].tidx <= Len(tenant_ids)
    /\ LET tid == CurTenant(run[i])
           s == get_or_create_notif_settings(settings, tid)
           hours == ReminderHours(s)
           cs == Candidates(bookings, tid, run[i].now, hours)
       IN /\ settings' = SettingsAfterGet(settings, tid)
          /\ run' = [run EXCEPT ![i] =
                        IF cs = <<>>
                        THEN [@ EXCEPT !.tidx = @ + 1]
                        ELSE [@ EXCEPT !.cands = cs, !.bidx = 1, !.pc = "email"]]
          /\ cand' = [b \in BookingIds |->
                        IF \E k \in 1..Len(cs) : cs[k] = b THEN cand[b] + 1 ELSE cand[b]]
          /\ processed' = [processed EXCEPT ![tid] = runNo]
    /\ DataUnchanged
    /\ UNCHANGED <<reminderLog, faults, runNo, lastGap, regular, sends, skipped, raised>>

\* the loop over tenants is exhausted: the job returns
FinishRun(i) ==
    /\ run[i].pc = "tenant"
    /\ run[i].tidx > Len(tenant_ids)
    /\ run' = [run EXCEPT ![i] = IdleRun]
    /\ DataUnchanged /\ HistUnchanged
    /\ UNCHANGED <<settings, reminderLog, faults>>

\* a database call of the tenant loop raises: the only handler that catches it
\* is the except clause around the whole loop, which prints and returns
TenantFault(i) ==
    /\ run[i].pc \in {"tenant", "email", "sms"}
    /\ run[i].tidx <= Len(tenant_ids)
    /\ faults < MaxFaults
    /\ faults' = faults + 1
    /\ raised' = [run |-> runNo, tenant |-> CurTenant(run[i])]
    /\ run' = [run EXCEPT ![i] = IdleRun]
    /\ DataUnchanged
    /\ UNCHANGED <<settings, reminderLog, runNo, lastGap, regular, cand, sends,
                   skipped, processed>>

\* mutant of CheckEmail: the lookup also sees the reminders other instances
\* are in the middle of sending
CheckEmailSeesInFlight(i) ==
    /\ run[i].pc = "email"
    /\ LET tid == CurTenant(run[i])
           bid == CurBooking(run[i])
           on == ChannelOn(settings, config, bookings[bid], tid, "email")
           already == \/ Already(reminderLog, bid, "email")
                      \/ \E j \in DOMAIN run \ {i} :
                            /\ run[j].pc \in {"email_send", "email_log"}
                            /\ CurBooking(run[j]) = bid
       IN /\ run' = [run EXCEPT ![i].pc = IF on /\ ~already THEN "email_send" ELSE "sms"]
          /\ skipped' = IF on /\ already THEN skipped \cup {<<bid, "email">>} ELSE skipped
    /\ DataUnchanged
    /\ UNCHANGED <<settings, reminderLog, faults, runNo, lastGap, regular, cand,
                   sends, processed, raised>>

\* if notif_ok(tid, "email") and b.customer_email: already = ...; if not already:
CheckEmail(i) ==
    /\ run[i].pc = "email"
    /\ LET tid == CurTenant(run[i])
           bid == CurBooking(run[i])
           on == ChannelOn(settings, config, bookings[bid], tid, "email")
           already == Already(reminderLog, bid, "email")
       IN /\ run' = [run EXCEPT ![i].pc = IF on /\ ~already THEN "email_send" ELSE "sms"]
          /\ skipped' = IF on /\ already THEN skipped \cup {<<bid, "email">>} ELSE skipped
    /\ DataUnchanged
    /\ UNCHANGED <<settings, reminderLog, faults, runNo, lastGap, regular, cand,
                   sends, processed, raised>>

\* send_email_smtp(b.customer_email, ...): the result is not looked at
SendEmail(i, ok) ==
    /\ run[i].pc = "email_send"
    /\ ok \in EmailResults(config)
    /\ sends' = Attempt(sends, <<CurBooking(run[i]), "email">>, ok, runNo)
    /\ run' = [run EXCEPT ![i].pc = "email_log"]
    /\ DataUnchanged
    /\ UNCHANGED <<settings, reminderLog, faults, runNo, lastGap, regular, cand,
                   skipped, processed, raised>>

\* db.session.add(ReminderLog(... channel="email" ...)); db.session.commit(),
\* when the row is accepted
LogEmail(i) ==
    /\ run[i].pc = "email_log"
    /\ Accepted(reminderLog, NewLogRow(CurTenant(run[i]), CurBooking(run[i]), "email", clock))
    /\ reminderLog' = InsertLog(reminderLog,
                         NewLogRow(CurTenant(run[i]), CurBooking(run[i]), "email", clock))
    /\ run' = [run EXCEPT ![i].pc = "sms"]
    /\ DataUnchanged /\ HistUnchanged
    /\ UNCHANGED <<settings, faults>>

\* if notif_ok(tid, "sms") and b.customer_phone: already = ...; if not already:
CheckSms(i) ==
    /\ run[i].pc = "sms"
    /\ LET tid == CurTenant(run[i])
           bid == CurBooking(run[i])
           on == ChannelOn(settings, config, bookings[bid], tid, "sms")
           already == Already(reminderLog, bid, "sms")
       IN /\ run' = [run EXCEPT ![i] =
                        IF on /\ ~already THEN [@ EXCEPT !.pc = "sms_send"]
                        ELSE AfterBooking(@)]
          /\ skipped' = IF on /\ already THEN skipped \cup {<<bid, "sms">>} ELSE skipped
    /\ DataUnchanged
    /\ UNCHANGED <<settings, reminderLog, faults, runNo, lastGap, regular, cand,
                   sends, processed, raised>>

\* ok = send_twilio_message(b.customer_phone, msg); if ok:
SendSms(i, ok) ==
    /\ run[i].pc = "sms_send"
    /\ ok \in SmsResults(config)
    /\ sends' = Attempt(sends, <<CurBooking(run[i]), "sms">>, ok, runNo)
    /\ run' = [run EXCEPT ![i] = IF ok THEN [@ EXCEPT !.pc = "sms_log"] ELSE AfterBooking(@)]
    /\ DataUnchanged
    /\ UNCHANGED <<settings, reminderLog, faults, runNo, lastGap, regular, cand,
                   skipped, processed, raised>>

\* db.session.add(ReminderLog(... channel="sms" ...)); db.session.commit(),
\* when the row is accepted
LogSms(i) ==
    /\ run[i].pc = "sms_log"
    /\ Accepted(reminderLog, NewLogRow(CurTenant(run[i]), CurBooking(run[i]), "sms", clock))
    /\ reminderLog' = InsertLog(reminderLog,
                         NewLogRow(CurTenant(run[i]), CurBooking(run[i]), "sms", clock))
    /\ run' = [run EXCEPT ![i] = AfterBooking(@)]
    /\ DataUnchanged /\ HistUnchanged
    /\ UNCHANGED <<settings, faults>>

(***************************************************************************)
(* The reminder scheduler as a state machine                               *)
(***************************************************************************)
\* notification_settings rows a tenant can have when the scheduler starts
SettingsOptions ==
    { None,
      Some([email_enabled |-> TRUE, sms_enabled |-> TRUE, reminder_hours_before |-> Some(1)]),
      Some([email_enabled |-> FALSE, sms_enabled |-> TRUE, reminder_hours_before |-> Some(0)]),
      Some([email_enabled |-> TRUE, sms_enabled |-> FALSE, reminder_hours_before |-> None]) }

\* the reminder lead time of a tenant whose settings row is opt
HoursOf(opt) == IF opt = None THEN DefaultReminderHours ELSE ReminderHours(opt[1])

\* a bookings row
Booking(tid, status, start, email, phone) ==
    [tenant_id |-> tid, status |-> status, start_at |-> start,
     customer_email |-> email, customer_phone |-> phone]

\* contact data and status of the second booking of tenant 1
SecondBookingKinds ==
    { [status |-> "confirmed", email |-> FALSE, phone |-> TRUE],
      [status |-> "cancelled", email |-> TRUE, phone |-> TRUE],
      [status |-> "completed", email |-> TRUE, phone |-> TRUE] }

NoExperiments == <<>>
NoCall == [op |-> "none"]

\* RateLimiter.__init__: self.memory_store = {}
NoEntries == <<>>
\* no is_allowed call was made
NoRequests == [last |-> [op |-> "none"], total |-> 0, windows |-> <<>>]
\* no record_impression / record_conversion call is in progress
NoCallers == <<>>
\* no crash and no rejected insert has happened
NoIncidents == [crashed |-> {}, rejected |-> {}, crashes |-> 0]

\* the rate limiter is fresh, no concurrent caller exists and the scheduler
\* had no mishap
OthersIdle ==
    /\ memory_store = NoEntries
    /\ requests = NoRequests
    /\ callers = NoCallers
    /\ incidents = NoIncidents

\* notification_settings rows of the second tenant when the scheduler starts
SecondTenantOptions ==
    { None,
      Some([email_enabled |-> TRUE, sms_enabled |-> TRUE, reminder_hours_before |-> Some(1)]) }

\* Three bookings: booking 1 (tenant 1, confirmed, email and phone) at every
\* offset; booking 2 (tenant 1) inside the first window, of every kind;
\* booking 3 (tenant 2, no phone) starting exactly at the first win_end.
InitSched ==
    /\ clock = 0
    /\ config \in [smtp : BOOLEAN, twilio : BOOLEAN]
    /\ settings \in {st \in [Tenants -> SettingsOptions] : st[2] \in SecondTenantOptions}
    /\ \E o1 \in Offsets, k \in SecondBookingKinds :
          LET base1 == HoursOf(settings[1]) * MinutesPerHour
              base2 == HoursOf(settings[2]) * MinutesPerHour
          IN bookings =
               (1 :> Booking(1, "confirmed", base1 + o1, TRUE, TRUE)) @@
               (2 :> Booking(1, k.status, base1 + 4, k.email, k.phone)) @@
               (3 :> Booking(2, "confirmed", base2 + WindowMinutes, TRUE, FALSE))
    /\ reminderLog = <<>>
    /\ run = [i \in Instances |-> IdleRun]
    /\ faults = 0
    /\ runNo = 0
    /\ lastGap = 0
    /\ regular = TRUE
    /\ cand = [b \in BookingIds |-> 0]
    /\ sends = [key \in BookingIds \X Channels |-> NoSend]
    /\ skipped = {}
    /\ processed = [t \in Tenants |-> 0]
    /\ raised = [run |-> 0, tenant |-> 0]
    /\ OthersIdle
    /\ experiments = NoExperiments
    /\ lastCall = NoCall
    /\ lastResults = <<>>

NextSched ==
    \E i \in Instances :
        \/ \E d \in Gaps \cup {0} : Fire(i, d)
        \/ LoadTenant(i)
        \/ FinishRun(i)
        \/ TenantFault(i)
        \/ CheckEmail(i)
        \/ \E ok \in BOOLEAN : SendEmail(i, ok)
        \/ LogEmail(i)
        \/ CheckSms(i)
        \/ \E ok \in BOOLEAN : SendSms(i, ok)
        \/ LogSms(i)

SpecSched == InitSched /\ [][NextSched]_vars

(***************************************************************************)
(* The scheduler process dies in the middle of a run                       *)
(***************************************************************************)
\* the run is between a send and the insert that follows it
AtLog(r) == r.pc \in {"email_log", "sms_log"}

\* the channel whose block the run is in
ChannelAt(r) == IF r.pc \in {"email", "email_send", "email_log"} THEN "email" ELSE "sms"

\* the row the run is about to insert
PendingRow(r) == NewLogRow(CurTenant(r), CurBooking(r), ChannelAt(r), clock)

\* mutant of CrashedLog: the row of the interrupted run is in the table
CrashedLogInserted(log, r) == IF AtLog(r) THEN InsertLog(log, PendingRow(r)) ELSE log

\* the table after the process died: db.session.add and db.session.commit
\* come after the send, so the interrupted run has written nothing
CrashedLog(log, r) == log

\* the process dies during a run; nothing of the run is left but what it
\* committed and what the providers delivered
Crash(i) ==
    /\ run[i].pc # "idle"
    /\ incidents.crashes < MaxCrashes
    /\ incidents' =
          [incidents EXCEPT
              !.crashes = @ + 1,
              !.crashed = IF /\ AtLog(run[i])
                             /\ sends[<<CurBooking(run[i]), ChannelAt(run[i])>>].last = "sent"
                          THEN @ \cup {<<CurBooking(run[i]), ChannelAt(run[i])>>}
                          ELSE @]
    /\ reminderLog' = CrashedLog(reminderLog, run[i])
    /\ run' = [run EXCEPT ![i] = IdleRun]
    /\ HistUnchanged
    /\ UNCHANGED <<clock, config, settings, bookings, faults, abVars, rlVars, callers>>

\* one tenant with both channels on and a lead time of one hour, a second
\* tenant without a settings row; both providers configured
InitCrash ==
    /\ InitSched
    /\ config = [smtp |-> TRUE, twilio |-> TRUE]
    /\ settings[1] = Some([email_enabled |-> TRUE, sms_enabled |-> TRUE,
                           reminder_hours_before |-> Some(1)])
    /\ settings[2] = None
    /\ bookings[2].status = "cancelled"

NextCrash == NextSched \/ \E i \in Instances : Crash(i)

SpecCrash == InitCrash /\ [][NextCrash]_vars

(***************************************************************************)
(* Two scheduler instances on the same database                            *)
(***************************************************************************)
\* the processes that each run a BackgroundScheduler
Fleet == {1, 2}

\* the interval trigger of instance i fires, whatever the other instances do.
\* A run takes less than a minute: a run that overlaps another one begins in
\* the same minute, and the clock moves on between runs.
FireOn(i, d) ==
    /\ run[i].pc = "idle"
    /\ runNo < MaxRuns
    /\ IF runNo = 0 \/ \E j \in DOMAIN run : run[j].pc # "idle"
       THEN d = 0 ELSE d \in Gaps \cup {0}
    /\ clock' = clock + d
    /\ run' = [run EXCEPT ![i] = [pc |-> "tenant", now |-> clock + d, tidx |-> 1,
                                  cands |-> <<>>, bidx |-> 0]]
    /\ runNo' = runNo + 1
    /\ lastGap' = d
    /\ regular' = (regular /\ (runNo = 0 \/ d = Period))
    /\ UNCHANGED <<config, settings, bookings, reminderLog, faults,
                   cand, sends, skipped, processed, raised, abVars, otherVars>>

\* db.session.commit() raises IntegrityError: the row breaks
\* uix_booking_channel_kind.  The except clause of the block prints the
\* error; the session was not rolled back by the job, so the run either goes
\* on or its next database call raises and the run ends.
RejectedInsert(i, goes_on) ==
    /\ AtLog(run[i])
    /\ ~Accepted(reminderLog, PendingRow(run[i]))
    /\ incidents' = [incidents EXCEPT
                        !.rejected = @ \cup {<<CurBooking(run[i]), ChannelAt(run[i])>>}]
    /\ run' = [run EXCEPT ![i] =
                  IF ~goes_on THEN IdleRun
                  ELSE IF @.pc = "email_log" THEN [@ EXCEPT !.pc = "sms"]
                  ELSE AfterBooking(@)]
    /\ HistUnchanged
    /\ UNCHANGED <<clock, config, settings, bookings, reminderLog, faults,
                   abVars, rlVars, callers>>

\* one tenant with both channels on and a lead time of one hour, a second
\* tenant without a settings row; both providers configured; booking 1 is in
\* the window of firings at minutes 0 and 2, bookings 2 and 3 are not confirmed
InitFleet ==
    /\ clock = 0
    /\ config = [smtp |-> TRUE, twilio |-> TRUE]
    /\ settings = (1 :> Some([email_enabled |-> TRUE, sms_enabled |-> TRUE,
                              reminder_hours_before |-> Some(1)])) @@ (2 :> None)
    /\ bookings =
          (1 :> Booking(1, "confirmed", MinutesPerHour + 4, TRUE, TRUE)) @@
          (2 :> Booking(1, "cancelled", MinutesPerHour + 4, TRUE, TRUE)) @@
          (3 :> Booking(2, "completed",
                        DefaultReminderHours * MinutesPerHour + WindowMinutes, TRUE, FALSE))
    /\ reminderLog = <<>>
    /\ run = [i \in Fleet |-> IdleRun]
    /\ faults = 0
    /\ runNo = 0
    /\ lastGap = 0
    /\ regular = TRUE
    /\ cand = [b \in BookingIds |-> 0]
    /\ sends = [key \in BookingIds \X Channels |-> NoSend]
    /\ skipped = {}
    /\ processed = [t \in Tenants |-> 0]
    /\ raised = [run |-> 0, tenant |-> 0]
    /\ OthersIdle
    /\ experiments = NoExperiments
    /\ lastCall = NoCall
    /\ lastResults = <<>>

NextFleet ==
    \E i \in Fleet :
        \/ \E d \in Gaps \cup {0} : FireOn(i, d)
        \/ LoadTenant(i)
        \/ FinishRun(i)
        \/ CheckEmail(i)
        \/ \E ok \in BOOLEAN : SendEmail(i, ok)
        \/ LogEmail(i)
        \/ CheckSms(i)
        \/ \E ok \in BOOLEAN : SendSms(i, ok)
        \/ LogSms(i)
        \/ \E goes_on \in BOOLEAN : RejectedInsert(i, goes_on)
        \/ Crash(i)

SpecFleet == InitFleet /\ [][NextFleet]_vars

(***************************************************************************)
(* ab_testing.py: the A/B testing engine                                   *)
(* A traffic allocation is a whole number of units, AllocOne units being   *)
(* the float 1.0 (every 1/N with N <= 6 is a whole number of units).       *)
(***************************************************************************)
\* traffic_allocation: float, 0.0 to 1.0; the model's value of 1.0
AllocOne == 12000
\* the 0.001 of abs(sum(traffic_allocation) - 1.0) > 0.001
Tolerance == AllocOne \div 1000
\* minimum_sample_size: int = 100
DefaultMinimumSampleSize == 100
\* confidence_level: float = 0.95, in thousandths
DefaultConfidenceLevel == 950

RECURSIVE SumSeq(_)
\* sum(traffic_allocation)
SumSeq(q) == IF q = <<>> THEN 0 ELSE q[1] + SumSeq(Tail(q))

Abs(x) == IF x < 0 THEN -x ELSE x

MinOf(S) == CHOOSE x \in S : \A y \in S : x <= y

\* [1.0 / num_variants] * num_variants
EqualSplit(n) == [k \in 1..n |-> AllocOne \div n]

\* mutant of NewVariant: every variant gets the id of the first one
NewVariantSameId(i, name, desc, allocation) ==
    [id |-> 0, name |-> name, description |-> desc,
     traffic_allocation |-> allocation,
     impressions |-> 0, conversions |-> 0, revenue |-> 0,
     conversion_rate |-> 0, revenue_per_visitor |-> 0]

\* Variant(id=f"variant_{i}", name=, description=, traffic_allocation=) with
\* the dataclass defaults; __post_init__ changes nothing while impressions = 0
NewVariant(i, name, desc, allocation) ==
    [id |-> i, name |-> name, description |-> desc,
     traffic_allocation |-> allocation,
     impressions |-> 0, conversions |-> 0, revenue |-> 0,
     conversion_rate |-> 0, revenue_per_visitor |-> 0]

\* Experiment(id=, name=, ..., status=ExperimentStatus.DRAFT, variants=, ...)
NewExperiment(id, name, variants, minimum_sample_size, confidence_level) ==
    [id |-> id, name |-> name, status |-> "draft", variants |-> variants,
     start_date |-> None, end_date |-> None,
     minimum_sample_size |-> minimum_sample_size,
     confidence_level |-> confidence_level,
     winner |-> None, statistical_significance |-> None]

\* str(uuid.uuid4()): an id no persisted record has
FreshId(store) == Len(store) + 1

\* mutant of SaveExperiment: counters already in the file are never lowered
SaveExperimentMerging(store, e) ==
    IF e.id \in DOMAIN store
    THEN [store EXCEPT ![e.id] =
            [e EXCEPT !.variants =
                [k \in DOMAIN e.variants |->
                    IF k \in DOMAIN store[e.id].variants
                    THEN [e.variants[k] EXCEPT
                            !.impressions = IF store[e.id].variants[k].impressions > @
                                            THEN store[e.id].variants[k].impressions ELSE @,
                            !.conversions = IF store[e.id].variants[k].conversions > @
                                            THEN store[e.id].variants[k].conversions ELSE @]
                    ELSE e.variants[k]]]]
    ELSE Append(store, e)

\* _save_experiment: writes <id>.json, replacing the record of that id
SaveExperiment(store, e) ==
    IF e.id \in DOMAIN store THEN [store EXCEPT ![e.id] = e] ELSE Append(store, e)

\* the outcome of an engine call that raises: nothing is written
Raises(store, error) == [ok |-> FALSE, error |-> error, store |-> store, id |-> 0]

\* for i, (name, desc, allocation) in enumerate(zip(...)): the Variant list;
\* zip stops at the shortest of the three lists
ZipVariants(variant_names, variant_descriptions, alloc) ==
    LET k == MinOf({Len(variant_names), Len(variant_descriptions), Len(alloc)})
    IN [j \in 1..k |-> NewVariant(j - 1, variant_names[j], variant_descriptions[j], alloc[j])]

\* ABTestingManager.create_experiment
create_experiment(store, name, variant_names, variant_descriptions, traffic_allocation, minimum_sample_size, confidence_level) ==
    LET num_variants == Len(variant_names) IN
    IF traffic_allocation = None /\ num_variants = 0
    THEN Raises(store, "ZeroDivisionError")
    ELSE
      LET alloc == IF traffic_allocation = None THEN EqualSplit(num_variants)
                   ELSE traffic_allocation[1]
      IN
      IF Abs(SumSeq(alloc) - AllocOne) > Tolerance
      THEN Raises(store, "ValueError")
      ELSE
        LET variants == ZipVariants(variant_names, variant_descriptions, alloc)
            \* the loop variable `name` rebinds the parameter `name`
            ename == IF variants = <<>> THEN name ELSE variants[Len(variants)].name
            e == NewExperiment(FreshId(store), ename, variants,
                               minimum_sample_size, confidence_level)
        IN [ok |-> TRUE, error |-> "", store |-> SaveExperiment(store, e), id |-> e.id]

\* the POST /api/experiments handler of app.py
api_create_experiment(store, name, variant_names, variant_descriptions, traffic_allocation) ==
    IF name = "" THEN Raises(store, "400 name required")
    ELSE IF Len(variant_names) < 2 THEN Raises(store, "400 two variants")
    ELSE IF Len(variant_names) # Len(variant_descriptions)
         THEN Raises(store, "400 lengths differ")
    ELSE LET r == create_experiment(store, name, variant_names, variant_descriptions,
                                    traffic_allocation, DefaultMinimumSampleSize,
                                    DefaultConfidenceLevel)
         IN IF r.ok THEN r ELSE Raises(store, "500")

(***************************************************************************)
(* The engine as a state machine                                           *)
(***************************************************************************)
\* the arguments the calls are made with
ExperimentNames == {"Subject Line Test"}
VariantNamePool == <<"Control", "Variant A", "Variant B", "Variant C", "Variant D">>
DescriptionPool == <<"current", "first", "second", "third", "fourth">>
\* 0.25 and 0.5
AllocValues == {AllocOne \div 4, AllocOne \div 2}

RECURSIVE SeqsUpTo(_, _)
\* the sequences over S of length at most n
SeqsUpTo(S, n) ==
    IF n = 0 THEN {<<>>}
    ELSE LET shorter == SeqsUpTo(S, n - 1)
         IN shorter \cup {Append(q, x) : q \in shorter, x \in S}

AllocInputs == {None} \cup {Some(q) : q \in SeqsUpTo(AllocValues, MaxVariants)}

\* the record of a call kept in lastCall
Called(op, name, n, d, traffic_allocation, r) ==
    [op |-> op, name |-> name, n |-> n, d |-> d,
     alloc_given |-> (traffic_allocation # None),
     ok |-> r.ok, error |-> r.error, id |-> r.id]

\* a direct call of ABTestingManager.create_experiment
CreateExperiment(name, n, d, traffic_allocation) ==
    /\ Len(experiments) < MaxExperiments
    /\ \E r \in {create_experiment(experiments, name, SubSeq(VariantNamePool, 1, n),
                                     SubSeq(DescriptionPool, 1, d), traffic_allocation,
                                     DefaultMinimumSampleSize, DefaultConfidenceLevel)} :
          /\ experiments' = r.store
          /\ lastCall' = Called("create_experiment", name, n, d, traffic_allocation, r)
    /\ UNCHANGED <<schedVars, otherVars, lastResults>>

\* a POST /api/experiments request
ApiCreateExperiment(name, n, d, traffic_allocation) ==
    /\ Len(experiments) < MaxExperiments
    /\ \E r \in {api_create_experiment(experiments, name, SubSeq(VariantNamePool, 1, n),
                                         SubSeq(DescriptionPool, 1, d), traffic_allocation)} :
          /\ experiments' = r.store
          /\ lastCall' = Called("api_create_experiment", name, n, d, traffic_allocation, r)
    /\ UNCHANGED <<schedVars, otherVars, lastResults>>

\* the scheduler part of the state while the engine is exercised
InitAB ==
    /\ clock = 0
    /\ config = [smtp |-> FALSE, twilio |-> FALSE]
    /\ settings = [t \in Tenants |-> None]
    /\ bookings = [b \in BookingIds |->
                     Booking(1, "confirmed", DefaultReminderHours * MinutesPerHour, TRUE, TRUE)]
    /\ reminderLog = <<>>
    /\ run = [i \in Instances |-> IdleRun]
    /\ faults = 0
    /\ runNo = 0
    /\ lastGap = 0
    /\ regular = TRUE
    /\ cand = [b \in BookingIds |-> 0]
    /\ sends = [key \in BookingIds \X Channels |-> NoSend]
    /\ skipped = {}
    /\ processed = [t \in Tenants |-> 0]
    /\ raised = [run |-> 0, tenant |-> 0]
    /\ OthersIdle
    /\ experiments = NoExperiments
    /\ lastCall = NoCall
    /\ lastResults = <<>>

NextAB ==
    \E n \in 0..MaxVariants, d \in 0..MaxVariants, a \in AllocInputs :
        \/ \E name \in ExperimentNames : CreateExperiment(name, n, d, a)
        \/ \E name \in ExperimentNames \cup {""} : ApiCreateExperiment(name, n, d, a)

SpecAB == InitAB /\ [][NextAB]_vars

(***************************************************************************)
(* ab_testing.py: loading, the lifecycle and the counters                  *)
(* conversion_rate and revenue_per_visitor are floats; the model holds     *)
(* them in units of 1/FloatOne, rounded down.  Revenue is counted in       *)
(* whole cents.                                                            *)
(***************************************************************************)
\* the model's value of the float 1.0 in derived metrics
FloatOne == AllocOne

\* mutant of PostInit: the rate is left a fraction, not a percentage
PostInitNoPercent(v) ==
    IF v.impressions > 0
    THEN [v EXCEPT !.conversion_rate = (v.conversions * FloatOne) \div v.impressions,
                   !.revenue_per_visitor = (v.revenue * FloatOne) \div v.impressions]
    ELSE v

\* Variant.__post_init__
PostInit(v) ==
    IF v.impressions > 0
    THEN [v EXCEPT !.conversion_rate = (v.conversions * 100 * FloatOne) \div v.impressions,
                   !.revenue_per_visitor = (v.revenue * FloatOne) \div v.impressions]
    ELSE v

\* data['variants'] = [Variant(**v) for v in data['variants']]; Experiment(**data):
\* building a Variant runs __post_init__
FromDict(data) == [data EXCEPT !.variants = [k \in DOMAIN @ |-> PostInit(@[k])]]

\* mutant of load_experiment: a missing file reads as an empty draft
load_experimentBlankWhenMissing(store, experiment_id) ==
    IF experiment_id \in DOMAIN store THEN Some(FromDict(store[experiment_id]))
    ELSE Some(NewExperiment(experiment_id, "", <<>>, DefaultMinimumSampleSize,
                            DefaultConfidenceLevel))

\* _load_experiment: the Experiment read from <id>.json, None when it raises
\* ValueError because the file does not exist
load_experiment(store, experiment_id) ==
    IF experiment_id \in DOMAIN store THEN Some(FromDict(store[experiment_id]))
    ELSE None

\* raise ValueError(f"Experiment {experiment_id} not found"): nothing is written
NotFound(store) == [ok |-> FALSE, error |-> "ValueError", store |-> store, result |-> None]

\* the outcome of an engine call that returns
Returns(store, result) == [ok |-> TRUE, error |-> "", store |-> store, result |-> result]

\* mutant of start_experiment: a restart forgets the stored result
start_experimentClearsResult(store, experiment_id, now) ==
    LET l == load_experiment(store, experiment_id) IN
    IF l = None THEN NotFound(store)
    ELSE LET experiment == [l[1] EXCEPT !.status = "running", !.start_date = Some(now),
                                        !.winner = None,
                                        !.statistical_significance = None]
         IN Returns(SaveExperiment(store, experiment), Some(experiment))

\* ABTestingManager.start_experiment
start_experiment(store, experiment_id, now) ==
    LET l == load_experiment(store, experiment_id) IN
    IF l = None THEN NotFound(store)
    ELSE LET experiment == [l[1] EXCEPT !.status = "running", !.start_date = Some(now)]
         IN Returns(SaveExperiment(store, experiment), Some(experiment))

\* mutant of pause_experiment: only a running experiment is paused
pause_experimentOnlyRunning(store, experiment_id) ==
    LET l == load_experiment(store, experiment_id) IN
    IF l = None THEN NotFound(store)
    ELSE IF l[1].status # "running" THEN Returns(store, Some(l[1]))
    ELSE LET experiment == [l[1] EXCEPT !.status = "paused"]
         IN Returns(SaveExperiment(store, experiment), Some(experiment))

\* ABTestingManager.pause_experiment
pause_experiment(store, experiment_id) ==
    LET l == load_experiment(store, experiment_id) IN
    IF l = None THEN NotFound(store)
    ELSE LET experiment == [l[1] EXCEPT !.status = "paused"]
         IN Returns(SaveExperiment(store, experiment), Some(experiment))

\* mutant of FindVariant: an id that matches no variant falls on the last one
FindVariantElseLast(variants, variant_id) ==
    LET hits == {k \in DOMAIN variants : variants[k].id = variant_id}
    IN IF hits = {} THEN Len(variants) ELSE MinOf(hits)

\* for variant in experiment.variants: if variant.id == variant_id: ... break
\* the index of the first variant with that id, 0 when the loop finds none
FindVariant(variants, variant_id) ==
    LET hits == {k \in DOMAIN variants : variants[k].id = variant_id}
    IN IF hits = {} THEN 0 ELSE MinOf(hits)

\* mutant of record_impression: the id test is missing and there is no break
record_impressionEveryVariant(store, experiment_id, variant_id) ==
    LET l == load_experiment(store, experiment_id) IN
    IF l = None THEN NotFound(store)
    ELSE LET experiment == [l[1] EXCEPT !.variants = [j \in DOMAIN @ |->
                                PostInit([@[j] EXCEPT !.impressions = @ + 1])]]
         IN Returns(SaveExperiment(store, experiment), None)

\* ABTestingManager.record_impression
record_impression(store, experiment_id, variant_id) ==
    LET l == load_experiment(store, experiment_id) IN
    IF l = None THEN NotFound(store)
    ELSE LET k == FindVariant(l[1].variants, variant_id)
             experiment ==
                 IF k = 0 THEN l[1]
                 ELSE [l[1] EXCEPT !.variants[k] =
                          PostInit([@ EXCEPT !.impressions = @ + 1])]
         IN Returns(SaveExperiment(store, experiment), None)

\* ABTestingManager.record_conversion
record_conversion(store, experiment_id, variant_id, revenue) ==
    LET l == load_experiment(store, experiment_id) IN
    IF l = None THEN NotFound(store)
    ELSE LET k == FindVariant(l[1].variants, variant_id)
             experiment ==
                 IF k = 0 THEN l[1]
                 ELSE [l[1] EXCEPT !.variants[k] =
                          PostInit([@ EXCEPT !.conversions = @ + 1,
                                             !.revenue = @ + revenue])]
         IN Returns(SaveExperiment(store, experiment), None)

\* ABTestingManager.get_experiment
get_experiment(store, experiment_id) ==
    LET l == load_experiment(store, experiment_id) IN
    IF l = None THEN NotFound(store) ELSE Returns(store, l)

(***************************************************************************)
(* ab_testing.py: winner determination                                     *)
(* The chi-squared statistic is held as an exact fraction num/den in       *)
(* lowest terms; p-values, significance and confidence_level are counted   *)
(* in thousandths.  The float statistic is within rounding error of the    *)
(* fraction, so both fall in the same bucket unless the fraction lies on a *)
(* critical value.                                                         *)
(***************************************************************************)
RECURSIVE GCD(_, _)
GCD(a, b) == IF b = 0 THEN a ELSE GCD(b, a % b)

\* the fraction n/d (d > 0) in lowest terms
Rat(n, d) == LET g == GCD(Abs(n), d) IN [num |-> n \div g, den |-> d \div g]

RatAdd(p, q) ==
    LET g == GCD(p.den, q.den)
    IN Rat(p.num * (q.den \div g) + q.num * (p.den \div g), (p.den \div g) * q.den)

\* p >= h/100
RatGeqHundredths(p, h) == p.num * 100 >= h * p.den

\* mutant of chi_squared_p_value: the critical values themselves fall in the
\* bucket below
chi_squared_p_valueStrict(chi_squared, df) ==
    IF df = 1
    THEN IF chi_squared.num * 100 > 1083 * chi_squared.den THEN 1
         ELSE IF chi_squared.num * 100 > 788 * chi_squared.den THEN 5
         ELSE IF chi_squared.num * 100 > 663 * chi_squared.den THEN 10
         ELSE IF chi_squared.num * 100 > 384 * chi_squared.den THEN 50
         ELSE IF chi_squared.num * 100 > 271 * chi_squared.den THEN 100
         ELSE 500
    ELSE 500

\* _chi_squared_p_value: the p-value in thousandths
chi_squared_p_value(chi_squared, df) ==
    IF df = 1
    THEN IF RatGeqHundredths(chi_squared, 1083) THEN 1
         ELSE IF RatGeqHundredths(chi_squared, 788) THEN 5
         ELSE IF RatGeqHundredths(chi_squared, 663) THEN 10
         ELSE IF RatGeqHundredths(chi_squared, 384) THEN 50
         ELSE IF RatGeqHundredths(chi_squared, 271) THEN 100
         ELSE 500
    ELSE 500

\* one cell of the 2x2 table: expected = impressions * column_total / total;
\* if expected > 0: ((observed - expected) ** 2) / expected, else nothing
ChiCell(observed, impressions, column_total, total) ==
    IF impressions * column_total > 0
    THEN Rat((observed * total - impressions * column_total)
               * (observed * total - impressions * column_total),
             total * impressions * column_total)
    ELSE Rat(0, 1)

\* mutant of chi_squared_test: the two non-conversion cells are left out
chi_squared_testConversionsOnly(conversions_a, impressions_a, conversions_b, impressions_b) ==
    IF impressions_a = 0 \/ impressions_b = 0
    THEN [chi_squared |-> None, p_value |-> None]
    ELSE
      LET total_conversions == conversions_a + conversions_b
          total_impressions == impressions_a + impressions_b
          chi_squared ==
              RatAdd(ChiCell(conversions_a, impressions_a, total_conversions, total_impressions),
                     ChiCell(conversions_b, impressions_b, total_conversions, total_impressions))
      IN [chi_squared |-> Some(chi_squared),
          p_value |-> Some(chi_squared_p_value(chi_squared, 1))]

\* _chi_squared_test
chi_squared_test(conversions_a, impressions_a, conversions_b, impressions_b) ==
    IF impressions_a = 0 \/ impressions_b = 0
    THEN [chi_squared |-> None, p_value |-> None]
    ELSE
      LET obs_conv_a == conversions_a
          obs_no_conv_a == impressions_a - conversions_a
          obs_conv_b == conversions_b
          obs_no_conv_b == impressions_b - conversions_b
          total_conversions == obs_conv_a + obs_conv_b
          total_no_conversions == obs_no_conv_a + obs_no_conv_b
          total_impressions == impressions_a + impressions_b
          chi_squared ==
              RatAdd(RatAdd(ChiCell(obs_conv_a, impressions_a, total_conversions, total_impressions),
                            ChiCell(obs_no_conv_a, impressions_a, total_no_conversions, total_impressions)),
                     RatAdd(ChiCell(obs_conv_b, impressions_b, total_conversions, total_impressions),
                            ChiCell(obs_no_conv_b, impressions_b, total_no_conversions, total_impressions)))
      IN IF total_impressions = 0
         THEN [chi_squared |-> None, p_value |-> None]
         ELSE [chi_squared |-> Some(chi_squared),
               p_value |-> Some(chi_squared_p_value(chi_squared, 1))]

\* confidence = 1 - p_value if p_value is not None else None
Confidence(p_value) == IF p_value = None THEN None ELSE Some(1000 - p_value[1])

\* mutant of SampleSizeMet: only the two compared variants are looked at
SampleSizeMetFirstTwo(experiment) ==
    \A k \in DOMAIN experiment.variants :
        k <= 2 => experiment.variants[k].impressions >= experiment.minimum_sample_size

\* all(v.impressions >= experiment.minimum_sample_size for v in experiment.variants)
SampleSizeMet(experiment) ==
    \A k \in DOMAIN experiment.variants :
        experiment.variants[k].impressions >= experiment.minimum_sample_size

\* mutant of determine_winner: a tie goes to the first variant
determine_winnerTieToFirst(experiment) ==
    IF Len(experiment.variants) < 2 THEN [winner |-> None, confidence |-> None]
    ELSE IF ~SampleSizeMet(experiment) THEN [winner |-> None, confidence |-> None]
    ELSE
      LET variant_a == experiment.variants[1]
          variant_b == experiment.variants[2]
          t == chi_squared_test(variant_a.conversions, variant_a.impressions,
                                variant_b.conversions, variant_b.impressions)
          winner_id == IF variant_a.conversion_rate >= variant_b.conversion_rate
                       THEN variant_a.id ELSE variant_b.id
      IN [winner |-> Some(winner_id),
          confidence |-> Confidence(t.p_value)]

\* _determine_winner
determine_winner(experiment) ==
    IF Len(experiment.variants) < 2 THEN [winner |-> None, confidence |-> None]
    ELSE IF ~SampleSizeMet(experiment) THEN [winner |-> None, confidence |-> None]
    ELSE
      LET variant_a == experiment.variants[1]
          variant_b == experiment.variants[2]
          t == chi_squared_test(variant_a.conversions, variant_a.impressions,
                                variant_b.conversions, variant_b.impressions)
          winner_id == IF variant_a.conversion_rate > variant_b.conversion_rate
                       THEN variant_a.id ELSE variant_b.id
      IN [winner |-> Some(winner_id),
          confidence |-> Confidence(t.p_value)]

\* mutant of complete_experiment: a winner is stored only when it is significant
complete_experimentOnlySignificant(store, experiment_id, now) ==
    LET l == load_experiment(store, experiment_id) IN
    IF l = None THEN NotFound(store)
    ELSE LET w == determine_winner(l[1])
             significant == w.confidence # None /\ w.confidence[1] >= l[1].confidence_level
             experiment == [l[1] EXCEPT !.status = "completed", !.end_date = Some(now),
                                        !.winner = IF significant THEN w.winner ELSE None,
                                        !.statistical_significance =
                                            IF significant THEN w.confidence ELSE None]
         IN Returns(SaveExperiment(store, experiment), Some(experiment))

\* ABTestingManager.complete_experiment
complete_experiment(store, experiment_id, now) ==
    LET l == load_experiment(store, experiment_id) IN
    IF l = None THEN NotFound(store)
    ELSE LET w == determine_winner(l[1])
             experiment == [l[1] EXCEPT !.status = "completed", !.end_date = Some(now),
                                        !.winner = w.winner,
                                        !.statistical_significance = w.confidence]
         IN Returns(SaveExperiment(store, experiment), Some(experiment))

\* the results bundle of get_results (without the recommendation strings)
Results(experiment) ==
    LET w == determine_winner(experiment)
    IN [experiment |-> experiment,
        variants |-> experiment.variants,
        winner |-> w.winner,
        statistical_significance |-> w.confidence,
        is_significant |-> (w.confidence # None
                            /\ w.confidence[1] >= experiment.confidence_level),
        sample_size_met |-> SampleSizeMet(experiment)]

\* mutant of get_results: the computed winner is written back to the record
get_resultsStoresWinner(store, experiment_id) ==
    LET l == load_experiment(store, experiment_id) IN
    IF l = None THEN NotFound(store)
    ELSE LET r == Results(l[1])
         IN Returns(SaveExperiment(store, [l[1] EXCEPT !.winner = r.winner,
                                      !.statistical_significance = r.statistical_significance]),
                    Some(r))

\* ABTestingManager.get_results
get_results(store, experiment_id) ==
    LET l == load_experiment(store, experiment_id) IN
    IF l = None THEN NotFound(store) ELSE Returns(store, Some(Results(l[1])))

(***************************************************************************)
(* The engine's lifecycle and counters as a state machine: the calls are   *)
(* made one after the other on a store that create_experiment has filled   *)
(***************************************************************************)
\* the experiments created before the calls start: variant count,
\* minimum_sample_size and confidence_level of each
EngineSetups ==
    { <<[n |-> 3, minimum_sample_size |-> 1, confidence_level |-> DefaultConfidenceLevel]>>,
      <<[n |-> 2, minimum_sample_size |-> 1, confidence_level |-> 500]>> }

RECURSIVE StoreAfterCreating(_)
\* the store after one create_experiment call for each entry of a setup
StoreAfterCreating(setup) ==
    IF setup = <<>> THEN NoExperiments
    ELSE LET c == setup[Len(setup)]
         IN create_experiment(StoreAfterCreating(SubSeq(setup, 1, Len(setup) - 1)),
                              "Subject Line Test",
                              SubSeq(VariantNamePool, 1, c.n), SubSeq(DescriptionPool, 1, c.n),
                              None, c.minimum_sample_size, c.confidence_level).store

\* experiment ids the calls on a store of two experiments are made with: the
\* first experiment and an id that has no record
IdInputs(store) == {1, FreshId(store)}
\* variant ids the calls are made with: those of the experiment's variants and
\* the first id past them (one id when the experiment does not exist: the call
\* fails before the id is read)
VariantIdInputs(store, experiment_id) ==
    IF experiment_id \in DOMAIN store THEN 0..Len(store[experiment_id].variants) ELSE {0}
\* revenue amounts the calls are made with, in cents (one amount when the
\* experiment does not exist)
RevenueInputs(store, experiment_id) ==
    IF experiment_id \in DOMAIN store THEN {0, 250} ELSE {0}

\* impressions and conversions recorded in a store, over all variants
Recorded(store) ==
    SumSeq([e \in DOMAIN store |->
              SumSeq([k \in DOMAIN store[e].variants |->
                        store[e].variants[k].impressions
                        + store[e].variants[k].conversions])])

\* of a results bundle, the part that is kept in lastCall and lastResults
Verdict(bundle) ==
    [winner |-> bundle.winner,
     statistical_significance |-> bundle.statistical_significance,
     is_significant |-> bundle.is_significant,
     sample_size_met |-> bundle.sample_size_met]

\* the record of an engine call kept in lastCall; result is what get_results
\* returned, changed tells whether the call left the store different
EngineCalled(op, experiment_id, variant_id, revenue, r) ==
    [op |-> op, id |-> experiment_id, variant_id |-> variant_id, revenue |-> revenue,
     ok |-> r.ok, error |-> r.error, changed |-> (r.store # experiments),
     result |-> IF op = "get_results" /\ r.ok THEN Some(Verdict(r.result[1])) ELSE None]

\* a call that leaves the recorded results of get_results as they are
Lifecycle(op, experiment_id, r) ==
    /\ experiments' = r.store
    /\ lastCall' = EngineCalled(op, experiment_id, 0, 0, r)
    /\ UNCHANGED <<schedVars, otherVars, lastResults>>

StartExperiment(experiment_id) ==
    \E r \in {start_experiment(experiments, experiment_id, clock)} :
        Lifecycle("start_experiment", experiment_id, r)

PauseExperiment(experiment_id) ==
    \E r \in {pause_experiment(experiments, experiment_id)} :
        Lifecycle("pause_experiment", experiment_id, r)

CompleteExperiment(experiment_id) ==
    \E r \in {complete_experiment(experiments, experiment_id, clock)} :
        Lifecycle("complete_experiment", experiment_id, r)

GetExperiment(experiment_id) ==
    \E r \in {get_experiment(experiments, experiment_id)} :
        Lifecycle("get_experiment", experiment_id, r)

\* a call that records an impression or a conversion
Recording(op, experiment_id, variant_id, revenue, r) ==
    /\ Recorded(r.store) <= MaxRecorded
    /\ experiments' = r.store
    /\ lastCall' = EngineCalled(op, experiment_id, variant_id, revenue, r)
    /\ lastResults' = [k \in DOMAIN lastResults |->
                          IF k = experiment_id THEN None ELSE lastResults[k]]
    /\ UNCHANGED <<schedVars, otherVars>>

RecordImpression(experiment_id, variant_id) ==
    \E r \in {record_impression(experiments, experiment_id, variant_id)} :
        Recording("record_impression", experiment_id, variant_id, 0, r)

RecordConversion(experiment_id, variant_id, revenue) ==
    \E r \in {record_conversion(experiments, experiment_id, variant_id, revenue)} :
        Recording("record_conversion", experiment_id, variant_id, revenue, r)

GetResults(experiment_id) ==
    \E r \in {get_results(experiments, experiment_id)} :
        /\ experiments' = r.store
        /\ lastCall' = EngineCalled("get_results", experiment_id, 0, 0, r)
        /\ lastResults' =
              IF r.ok
              THEN [lastResults EXCEPT ![experiment_id] = Some(Verdict(r.result[1]))]
              ELSE lastResults
        /\ UNCHANGED <<schedVars, otherVars>>

InitEngine ==
    /\ clock = 0
    /\ config = [smtp |-> FALSE, twilio |-> FALSE]
    /\ settings = [t \in Tenants |-> None]
    /\ bookings = [b \in BookingIds |->
                     Booking(1, "confirmed", DefaultReminderHours * MinutesPerHour, TRUE, TRUE)]
    /\ reminderLog = <<>>
    /\ run = [i \in Instances |-> IdleRun]
    /\ faults = 0
    /\ runNo = 0
    /\ lastGap = 0
    /\ regular = TRUE
    /\ cand = [b \in BookingIds |-> 0]
    /\ sends = [key \in BookingIds \X Channels |-> NoSend]
    /\ skipped = {}
    /\ processed = [t \in Tenants |-> 0]
    /\ raised = [run |-> 0, tenant |-> 0]
    /\ OthersIdle
    /\ \E setup \in EngineSetups : experiments = StoreAfterCreating(setup)
    /\ lastCall = NoCall
    /\ lastResults = [k \in DOMAIN experiments |-> None]

\* the calls are made with the ids of persisted experiments, conversions are
\* recorded with the default revenue=0.0
NextEngine ==
    \E experiment_id \in DOMAIN experiments :
        \/ StartExperiment(experiment_id)
        \/ PauseExperiment(experiment_id)
        \/ CompleteExperiment(experiment_id)
        \/ GetExperiment(experiment_id)
        \/ GetResults(experiment_id)
        \/ \E variant_id \in VariantIdInputs(experiments, experiment_id) :
              RecordImpression(experiment_id, variant_id)
        \/ \E variant_id \in VariantIdInputs(experiments, experiment_id) :
              RecordConversion(experiment_id, variant_id, 0)

SpecEngine == InitEngine /\ [][NextEngine]_vars

(***************************************************************************)
(* The same calls on a store that holds two experiments, made with the id  *)
(* of the first one and with an id that has no record                      *)
(***************************************************************************)
StoreSetup ==
    <<[n |-> 2, minimum_sample_size |-> 1, confidence_level |-> DefaultConfidenceLevel],
      [n |-> 3, minimum_sample_size |-> 1, confidence_level |-> DefaultConfidenceLevel]>>

InitStore ==
    /\ clock = 0
    /\ config = [smtp |-> FALSE, twilio |-> FALSE]
    /\ settings = [t \in Tenants |-> None]
    /\ bookings = [b \in BookingIds |->
                     Booking(1, "confirmed", DefaultReminderHours * MinutesPerHour, TRUE, TRUE)]
    /\ reminderLog = <<>>
    /\ run = [i \in Instances |-> IdleRun]
    /\ faults = 0
    /\ runNo = 0
    /\ lastGap = 0
    /\ regular = TRUE
    /\ cand = [b \in BookingIds |-> 0]
    /\ sends = [key \in BookingIds \X Channels |-> NoSend]
    /\ skipped = {}
    /\ processed = [t \in Tenants |-> 0]
    /\ raised = [run |-> 0, tenant |-> 0]
    /\ OthersIdle
    /\ experiments = StoreAfterCreating(StoreSetup)
    /\ lastCall = NoCall
    /\ lastResults = [k \in DOMAIN experiments |-> None]

NextStore ==
    \E experiment_id \in IdInputs(experiments) :
        \/ StartExperiment(experiment_id)
        \/ PauseExperiment(experiment_id)
        \/ CompleteExperiment(experiment_id)
        \/ GetExperiment(experiment_id)
        \/ GetResults(experiment_id)
        \/ \E variant_id \in VariantIdInputs(experiments, experiment_id) :
              RecordImpression(experiment_id, variant_id)
        \/ \E variant_id \in VariantIdInputs(experiments, experiment_id),
                 revenue \in RevenueInputs(experiments, experiment_id) :
              RecordConversion(experiment_id, variant_id, revenue)

SpecStore == InitStore /\ [][NextStore]_vars

(***************************************************************************)
(* The calls on one experiment while time passes: datetime.utcnow() grows  *)
(* between calls, and lastCall also keeps the record the call found        *)
(***************************************************************************)
\* the experiment created before the calls start
LifecycleSetup ==
    <<[n |-> 2, minimum_sample_size |-> 1, confidence_level |-> DefaultConfidenceLevel]>>

\* the record of a call kept in lastCall: as EngineCalled, with the time of the
\* call and the record persisted under the id before the call
TimedCalled(op, experiment_id, variant_id, revenue, r) ==
    [op |-> op, id |-> experiment_id, variant_id |-> variant_id, revenue |-> revenue,
     ok |-> r.ok, error |-> r.error, changed |-> (r.store # experiments),
     result |-> IF op = "get_results" /\ r.ok THEN Some(Verdict(r.result[1])) ELSE None,
     at |-> clock,
     before |-> IF experiment_id \in DOMAIN experiments
                THEN Some(experiments[experiment_id]) ELSE None]

\* a call at the current time
TimedCall(op, experiment_id, variant_id, revenue, r) ==
    /\ op \in {"record_impression", "record_conversion"} => Recorded(r.store) <= MaxRecorded
    /\ experiments' = r.store
    /\ lastCall' = TimedCalled(op, experiment_id, variant_id, revenue, r)
    /\ lastResults' =
          IF op \in {"record_impression", "record_conversion"}
          THEN [k \in DOMAIN lastResults |->
                   IF k = experiment_id THEN None ELSE lastResults[k]]
          ELSE IF op = "get_results" /\ r.ok
          THEN [lastResults EXCEPT ![experiment_id] = Some(Verdict(r.result[1]))]
          ELSE lastResults
    /\ UNCHANGED <<schedVars, otherVars>>

StartAt(experiment_id) ==
    \E r \in {start_experiment(experiments, experiment_id, clock)} :
        TimedCall("start_experiment", experiment_id, 0, 0, r)

PauseAt(experiment_id) ==
    \E r \in {pause_experiment(experiments, experiment_id)} :
        TimedCall("pause_experiment", experiment_id, 0, 0, r)

CompleteAt(experiment_id) ==
    \E r \in {complete_experiment(experiments, experiment_id, clock)} :
        TimedCall("complete_experiment", experiment_id, 0, 0, r)

ResultsAt(experiment_id) ==
    \E r \in {get_results(experiments, experiment_id)} :
        TimedCall("get_results", experiment_id, 0, 0, r)

ImpressionAt(experiment_id, variant_id) ==
    \E r \in {record_impression(experiments, experiment_id, variant_id)} :
        TimedCall("record_impression", experiment_id, variant_id, 0, r)

ConversionAt(experiment_id, variant_id) ==
    \E r \in {record_conversion(experiments, experiment_id, variant_id, 0)} :
        TimedCall("record_conversion", experiment_id, variant_id, 0, r)

\* a unit of time passes between two calls
Tick ==
    /\ clock < MaxClock
    /\ clock' = clock + 1
    /\ UNCHANGED <<config, settings, bookings, reminderLog, run, faults, runNo, lastGap,
                   regular, cand, sends, skipped, processed, raised, abVars, otherVars>>

InitLifecycle ==
    /\ clock = 0
    /\ config = [smtp |-> FALSE, twilio |-> FALSE]
    /\ settings = [t \in Tenants |-> None]
    /\ bookings = [b \in BookingIds |->
                     Booking(1, "confirmed", DefaultReminderHours * MinutesPerHour, TRUE, TRUE)]
    /\ reminderLog = <<>>
    /\ run = [i \in Instances |-> IdleRun]
    /\ faults = 0
    /\ runNo = 0
    /\ lastGap = 0
    /\ regular = TRUE
    /\ cand = [b \in BookingIds |-> 0]
    /\ sends = [key \in BookingIds \X Channels |-> NoSend]
    /\ skipped = {}
    /\ processed = [t \in Tenants |-> 0]
    /\ raised = [run |-> 0, tenant |-> 0]
    /\ OthersIdle
    /\ experiments = StoreAfterCreating(LifecycleSetup)
    /\ lastCall = NoCall
    /\ lastResults = [k \in DOMAIN experiments |-> None]

NextLifecycle ==
    \/ Tick
    \/ \E experiment_id \in DOMAIN experiments :
          \/ StartAt(experiment_id)
          \/ PauseAt(experiment_id)
          \/ CompleteAt(experiment_id)
          \/ ResultsAt(experiment_id)
          \/ \E variant_id \in DOMAIN experiments[experiment_id].variants :
                ImpressionAt(experiment_id, variant_id - 1)
          \/ \E variant_id \in DOMAIN experiments[experiment_id].variants :
                ConversionAt(experiment_id, variant_id - 1)

SpecLifecycle == InitLifecycle /\ [][NextLifecycle]_vars

(***************************************************************************)
(* record_impression and record_conversion called concurrently (request    *)
(* threads or worker processes on the same data directory): each call      *)
(* loads the record, changes the Experiment object it holds and writes the *)
(* whole record back; the load and the save of different calls interleave  *)
(***************************************************************************)
\* the concurrent calls
CallerIds == 1..MaxCallers

IdleCaller == [pc |-> "idle", op |-> "none", id |-> 0, variant_id |-> 0,
               seen |-> None, experiment |-> None]

\* experiment = self._load_experiment(experiment_id), then the loop over
\* experiment.variants: the caller holds the changed Experiment object;
\* seen is the record as it was loaded
LoadAndModify(p, op, experiment_id, variant_id) ==
    /\ callers[p].pc = "idle"
    /\ experiment_id \in DOMAIN experiments
    /\ LET r == IF op = "record_impression"
                THEN record_impression(experiments, experiment_id, variant_id)
                ELSE record_conversion(experiments, experiment_id, variant_id, 0)
       IN callers' = [callers EXCEPT ![p] =
                         [pc |-> "loaded", op |-> op, id |-> experiment_id,
                          variant_id |-> variant_id,
                          seen |-> load_experiment(experiments, experiment_id),
                          experiment |-> Some(r.store[experiment_id])]]
    /\ UNCHANGED <<schedVars, abVars, rlVars, incidents>>

\* self._save_experiment(experiment): the file is replaced by the object the
\* caller holds, and the call returns
SaveLoaded(p) ==
    /\ callers[p].pc = "loaded"
    /\ experiments' = SaveExperiment(experiments, callers[p].experiment[1])
    /\ callers' = [callers EXCEPT ![p].pc = "done"]
    /\ UNCHANGED <<schedVars, lastCall, lastResults, rlVars, incidents>>

InitRace ==
    /\ clock = 0
    /\ config = [smtp |-> FALSE, twilio |-> FALSE]
    /\ settings = [t \in Tenants |-> None]
    /\ bookings = [b \in BookingIds |->
                     Booking(1, "confirmed", DefaultReminderHours * MinutesPerHour, TRUE, TRUE)]
    /\ reminderLog = <<>>
    /\ run = [i \in Instances |-> IdleRun]
    /\ faults = 0
    /\ runNo = 0
    /\ lastGap = 0
    /\ regular = TRUE
    /\ cand = [b \in BookingIds |-> 0]
    /\ sends = [key \in BookingIds \X Channels |-> NoSend]
    /\ skipped = {}
    /\ processed = [t \in Tenants |-> 0]
    /\ raised = [run |-> 0, tenant |-> 0]
    /\ memory_store = NoEntries
    /\ requests = NoRequests
    /\ incidents = NoIncidents
    /\ callers = [p \in CallerIds |-> IdleCaller]
    /\ experiments = StoreAfterCreating(LifecycleSetup)
    /\ lastCall = NoCall
    /\ lastResults = [k \in DOMAIN experiments |-> None]

NextRace ==
    \E p \in CallerIds :
        \/ \E op \in {"record_impression", "record_conversion"},
              experiment_id \in DOMAIN experiments :
              \E variant_id \in DOMAIN experiments[experiment_id].variants :
                  LoadAndModify(p, op, experiment_id, variant_id - 1)
        \/ SaveLoaded(p)

SpecRace == InitRace /\ [][NextRace]_vars

(***************************************************************************)
(* security.py: the in-memory rate limiter (redis_client is None).  Here   *)
(* the clock counts seconds.  Identifiers and routes are strings without   *)
(* ':', held as one token each; a key is the list of the parts that the    *)
(* f-string joins.                                                         *)
(***************************************************************************)
\* identifiers (user ids, IP addresses) and routes the calls are made with
Identifiers == {<<"user-1">>, <<"user-2">>}
Routes == {<<"api_test">>, <<"api_other">>}

\* @rate_limit(limit=, window=): the arguments each route is decorated with
RouteLimits(route) ==
    IF route = <<"api_test">> THEN [limit |-> 2, window |-> 1]
    ELSE [limit |-> 1, window |-> 2]

\* mutant of get_key: the key names the route only
get_keyRouteOnly(identifier, route) == <<"ratelimit", ":">> \o route

\* _get_key: f"ratelimit:{identifier}:{route}"
get_key(identifier, route) == <<"ratelimit", ":">> \o identifier \o <<":">> \o route

\* _clean_memory_store: the entries with expires < now are deleted
clean_memory_store(store, now) ==
    [k \in {x \in DOMAIN store : ~(store[x].expires < now)} |-> store[k]]

\* self.memory_store[key] = entry
SetEntry(store, key, entry) ==
    [k \in DOMAIN store \cup {key} |-> IF k = key THEN entry ELSE store[k]]

\* the tuple (allowed, info) that is_allowed returns, with the store it leaves
Answer(store, allowed, limit, remaining, reset, retry_after) ==
    [store |-> store, allowed |-> allowed,
     info |-> [limit |-> limit, remaining |-> remaining, reset |-> reset,
               retry_after |-> retry_after]]

\* mutant of is_allowed: the limit is compared with > instead of >=
is_allowedOffByOne(store, identifier, route, limit, window, now) ==
    LET key == get_key(identifier, route)
        cleaned == clean_memory_store(store, now)
        fresh == [count |-> 1, expires |-> now + window]
    IN IF key \in DOMAIN cleaned
       THEN LET entry == cleaned[key] IN
            IF entry.expires < now
            THEN Answer(SetEntry(cleaned, key, fresh), TRUE, limit, limit - 1,
                        now + window, None)
            ELSE IF entry.count > limit
            THEN Answer(cleaned, FALSE, limit, 0, entry.expires, Some(entry.expires - now))
            ELSE Answer(SetEntry(cleaned, key, [entry EXCEPT !.count = @ + 1]), TRUE, limit,
                        limit - (entry.count + 1), entry.expires, None)
       ELSE Answer(SetEntry(cleaned, key, fresh), TRUE, limit, limit - 1, now + window, None)

\* RateLimiter.is_allowed, in-memory branch
is_allowed(store, identifier, route, limit, window, now) ==
    LET key == get_key(identifier, route)
        cleaned == clean_memory_store(store, now)
        fresh == [count |-> 1, expires |-> now + window]
    IN IF key \in DOMAIN cleaned
       THEN LET entry == cleaned[key] IN
            IF entry.expires < now
            THEN Answer(SetEntry(cleaned, key, fresh), TRUE, limit, limit - 1,
                        now + window, None)
            ELSE IF entry.count >= limit
            THEN Answer(cleaned, FALSE, limit, 0, entry.expires, Some(entry.expires - now))
            ELSE Answer(SetEntry(cleaned, key, [entry EXCEPT !.count = @ + 1]), TRUE, limit,
                        limit - (entry.count + 1), entry.expires, None)
       ELSE Answer(SetEntry(cleaned, key, fresh), TRUE, limit, limit - 1, now + window, None)

\* the window of an (identifier, route) pair a call at time now falls in: the
\* running one while now is not past its end, else a new one of `window`
\* seconds; calls and allowed count the calls made and allowed in it
WindowAfter(windows, pair, window, now, allowed) ==
    LET running == pair \in DOMAIN windows /\ ~(windows[pair].end < now)
        w == IF running THEN windows[pair] ELSE [end |-> now + window, calls |-> 0, allowed |-> 0]
    IN [w EXCEPT !.calls = @ + 1, !.allowed = @ + (IF allowed THEN 1 ELSE 0)]

\* a request on a decorated route: limiter.is_allowed(identifier, route, limit, window)
IsAllowed(identifier, route) ==
    /\ requests.total < MaxCalls
    /\ LET d == RouteLimits(route)
           r == is_allowed(memory_store, identifier, route, d.limit, d.window, clock)
           pair == <<identifier, route>>
           w == WindowAfter(requests.windows, pair, d.window, clock, r.allowed)
       IN /\ memory_store' = r.store
          /\ requests' =
                [last |-> [op |-> "is_allowed", identifier |-> identifier, route |-> route,
                           at |-> clock, allowed |-> r.allowed, info |-> r.info,
                           n |-> w.calls, allowed_so_far |-> w.allowed],
                 total |-> requests.total + 1,
                 windows |-> [k \in DOMAIN requests.windows \cup {pair} |->
                                 IF k = pair THEN w ELSE requests.windows[k]]]
    /\ UNCHANGED <<schedVars, abVars, callers, incidents>>

InitLimiter ==
    /\ clock = 0
    /\ config = [smtp |-> FALSE, twilio |-> FALSE]
    /\ settings = [t \in Tenants |-> None]
    /\ bookings = [b \in BookingIds |->
                     Booking(1, "confirmed", DefaultReminderHours * MinutesPerHour, TRUE, TRUE)]
    /\ reminderLog = <<>>
    /\ run = [i \in Instances |-> IdleRun]
    /\ faults = 0
    /\ runNo = 0
    /\ lastGap = 0
    /\ regular = TRUE
    /\ cand = [b \in BookingIds |-> 0]
    /\ sends = [key \in BookingIds \X Channels |-> NoSend]
    /\ skipped = {}
    /\ processed = [t \in Tenants |-> 0]
    /\ raised = [run |-> 0, tenant |-> 0]
    /\ OthersIdle
    /\ experiments = NoExperiments
    /\ lastCall = NoCall
    /\ lastResults = <<>>

NextLimiter ==
    \/ Tick
    \/ \E identifier \in Identifiers, route \in Routes : IsAllowed(identifier, route)

SpecLimiter == InitLimiter /\ [][NextLimiter]_vars

(***************************************************************************)
(* The statistics on given numbers: the p-value lookup on a statistic, and *)
(* get_results after given numbers of impressions and conversions were     *)
(* recorded on the two variants of a fresh experiment                      *)
(***************************************************************************)
\* the statistics the lookup is applied to, in hundredths: 0.00 .. MaxChi/100
ChiInputs == 0..MaxChi
\* impressions and conversions recorded on a variant
ImpressionInputs == {99, 100, 120}
ConversionInputs == {0, 10, 20}

RECURSIVE RecordImpressions(_, _, _, _)
\* n calls of record_impression(experiment_id, variant_id)
RecordImpressions(store, experiment_id, variant_id, n) ==
    IF n = 0 THEN store
    ELSE IF n = 1 THEN record_impression(store, experiment_id, variant_id).store
    ELSE LET half == RecordImpressions(store, experiment_id, variant_id, n \div 2)
         IN IF half = store THEN store
            ELSE RecordImpressions(half, experiment_id, variant_id, n - n \div 2)

RECURSIVE RecordConversions(_, _, _, _)
\* n calls of record_conversion(experiment_id, variant_id) with the default revenue
RecordConversions(store, experiment_id, variant_id, n) ==
    IF n = 0 THEN store
    ELSE IF n = 1 THEN record_conversion(store, experiment_id, variant_id, 0).store
    ELSE LET half == RecordConversions(store, experiment_id, variant_id, n \div 2)
         IN IF half = store THEN store
            ELSE RecordConversions(half, experiment_id, variant_id, n - n \div 2)

\* the store after create_experiment with two variants and the default
\* minimum_sample_size and confidence_level, then the recordings on variant_0,
\* then those on variant_1
StoreAfterRecording(impressions_a, conversions_a, impressions_b, conversions_b) ==
    LET created == create_experiment(NoExperiments, "Subject Line Test",
                       SubSeq(VariantNamePool, 1, 2), SubSeq(DescriptionPool, 1, 2),
                       None, DefaultMinimumSampleSize, DefaultConfidenceLevel)
        a == RecordConversions(RecordImpressions(created.store, created.id, 0, impressions_a),
                               created.id, 0, conversions_a)
    IN RecordConversions(RecordImpressions(a, created.id, 1, impressions_b),
                         created.id, 1, conversions_b)

\* _chi_squared_p_value(chi_squared, 1) and the confidence derived from it
ChiSquaredPValue(hundredths) ==
    /\ lastCall = NoCall
    /\ lastCall' = [op |-> "chi_squared_p_value", chi_squared |-> hundredths,
                    p_value |-> chi_squared_p_value(Rat(hundredths, 100), 1),
                    confidence |-> Confidence(Some(chi_squared_p_value(Rat(hundredths, 100), 1)))]
    /\ UNCHANGED <<schedVars, otherVars, experiments, lastResults>>

\* get_results after the recordings; chi is what _chi_squared_test returns on
\* the counters of the first two variants when the sample size is met
ResultsAfterRecording(impressions_a, conversions_a, impressions_b, conversions_b) ==
    /\ lastCall = NoCall
    /\ \E store \in {StoreAfterRecording(impressions_a, conversions_a,
                                      impressions_b, conversions_b)} :
        LET r == get_results(store, 1)
            variant_a == r.result[1].variants[1]
            variant_b == r.result[1].variants[2]
        IN /\ experiments = NoExperiments
           /\ experiments' = r.store
           /\ lastCall' = [op |-> "get_results", id |-> 1, ok |-> r.ok,
                           recorded |-> <<impressions_a, conversions_a,
                                          impressions_b, conversions_b>>,
                           result |-> Some(Verdict(r.result[1])),
                           chi |-> IF r.result[1].sample_size_met
                                   THEN chi_squared_test(variant_a.conversions,
                                                         variant_a.impressions,
                                                         variant_b.conversions,
                                                         variant_b.impressions)
                                   ELSE [chi_squared |-> None, p_value |-> None]]
           /\ UNCHANGED <<schedVars, otherVars, lastResults>>

InitStatistics ==
    /\ clock = 0
    /\ config = [smtp |-> FALSE, twilio |-> FALSE]
    /\ settings = [t \in Tenants |-> None]
    /\ bookings = [b \in BookingIds |->
                     Booking(1, "confirmed", DefaultReminderHours * MinutesPerHour, TRUE, TRUE)]
    /\ reminderLog = <<>>
    /\ run = [i \in Instances |-> IdleRun]
    /\ faults = 0
    /\ runNo = 0
    /\ lastGap = 0
    /\ regular = TRUE
    /\ cand = [b \in BookingIds |-> 0]
    /\ sends = [key \in BookingIds \X Channels |-> NoSend]
    /\ skipped = {}
    /\ processed = [t \in Tenants |-> 0]
    /\ raised = [run |-> 0, tenant |-> 0]
    /\ OthersIdle
    /\ experiments = NoExperiments
    /\ lastCall = NoCall
    /\ lastResults = <<>>

NextStatistics ==
    \/ \E hundredths \in ChiInputs : ChiSquaredPValue(hundredths)
    \/ \E impressions_a \in ImpressionInputs, conversions_a \in ConversionInputs,
          impressions_b \in ImpressionInputs, conversions_b \in ConversionInputs :
          ResultsAfterRecording(impressions_a, conversions_a, impressions_b, conversions_b)

SpecStatistics == InitStatistics /\ [][NextStatistics]_vars

(***************************************************************************)
(* Properties of the reminder scheduler                                    *)
(***************************************************************************)
AllIdle == \A i \in Instances : run[i].pc = "idle"

\* the reminder_logs table holds a row (booking, channel, "before")
HasLogEntry(bid, channel) ==
    \E k \in 1..Len(reminderLog) :
        /\ reminderLog[k].booking_id = bid
        /\ reminderLog[k].channel = channel
        /\ reminderLog[k].kind = "before"

\* the lead time the specification gives a tenant: its reminder_hours_before,
\* or 24 when there is no row, or the column is unset or zero
ClaimHours(t) ==
    IF settings[t] = None THEN 24
    ELSE IF settings[t][1].reminder_hours_before = None THEN 24
    ELSE IF settings[t][1].reminder_hours_before[1] = 0 THEN 24
    ELSE settings[t][1].reminder_hours_before[1]

\* the flags of a tenant: those of its row, or the defaults of a fresh row
ClaimFlags(t) ==
    IF settings[t] = None THEN [email_enabled |-> TRUE, sms_enabled |-> FALSE]
    ELSE [email_enabled |-> settings[t][1].email_enabled,
          sms_enabled |-> settings[t][1].sms_enabled]

\* the specification's condition for a channel to be enabled for a booking
ClaimEnabled(b, channel) ==
    LET t == bookings[b].tenant_id IN
    IF channel = "email"
    THEN ClaimFlags(t).email_enabled /\ bookings[b].customer_email
    ELSE ClaimFlags(t).sms_enabled /\ config.twilio /\ bookings[b].customer_phone

\* booking b is a confirmed booking of tenant t starting in [now+h, now+h+5min)
ClaimInWindow(b, t, now) ==
    /\ bookings[b].tenant_id = t
    /\ bookings[b].status = "confirmed"
    /\ bookings[b].start_at >= now + 60 * ClaimHours(t)
    /\ bookings[b].start_at < now + 60 * ClaimHours(t) + 5

\* C1: once a ReminderLog entry (booking, channel, "before") exists, no step of
\* any later (or the same) run attempts a send for that booking on that channel.
C1_NoSendOnceLogged ==
    [][\A key \in BookingIds \X Channels :
          sends'[key].n > sends[key].n => ~HasLogEntry(key[1], key[2])]_vars

\* C1 witness: a later run found the booking in its window again, its lookup
\* found the entry, and the run ended with still exactly one send.
C1_Witness ==
    /\ AllIdle
    /\ runNo >= 2
    /\ \E key \in skipped : sends[key].n = 1 /\ HasLogEntry(key[1], key[2])

\* C2 (as claimed): on both channels, a send that the notifier reports as not
\* sent leaves no ReminderLog entry for that booking and channel.
C2_FailedSendLeavesNoLog ==
    \A key \in BookingIds \X Channels :
        sends[key].last = "notsent" => ~HasLogEntry(key[1], key[2])

\* C3 (as claimed): when a run has ended and an exception was raised in it while
\* a tenant was processed, every tenant after that one was processed in that run.
C3_LaterTenantsStillProcessed ==
    (AllIdle /\ runNo >= 1 /\ raised.run = runNo) =>
        \A k \in 1..Len(tenant_ids) :
            (\E j \in 1..(k - 1) : tenant_ids[j] = raised.tenant) =>
                processed[tenant_ids[k]] = runNo

\* C4: when the job has fired exactly every 5 minutes, no booking was a candidate
\* of two firings, and once the firings so far have run to their end (none cut
\* short by an exception) every confirmed booking starting at or after the first
\* win_start and before the last win_end was a candidate of exactly one firing.
C4_RegularRunsTile ==
    regular =>
        \A b \in BookingIds :
            LET first == 60 * ClaimHours(bookings[b].tenant_id) IN
            /\ cand[b] <= 1
            /\ (/\ AllIdle /\ faults = 0 /\ runNo >= 1
                /\ bookings[b].status = "confirmed"
                /\ bookings[b].start_at >= first
                /\ bookings[b].start_at < first + 5 * runNo) => cand[b] = 1

\* C4 witness: three firings five minutes apart; booking 3, which starts at the
\* first win_end, and booking 1 were each a candidate exactly once.
C4_Witness ==
    /\ regular /\ AllIdle /\ faults = 0 /\ runNo = 3
    /\ cand[1] = 1 /\ cand[3] = 1
    /\ bookings[3].start_at = 60 * ClaimHours(2) + 5

\* C5 (as claimed): a send that failed in one run is attempted again in the run
\* fired one period later.
C5_FailedSendRetriedNextTick ==
    (AllIdle /\ runNo >= 2 /\ lastGap = 5 /\ faults = 0) =>
        \A key \in BookingIds \X Channels :
            ~(sends[key].last = "notsent" /\ sends[key].run = runNo - 1)

\* C6: a send is attempted, and a ReminderLog entry written, on a channel only
\* if that channel is enabled for the booking: email needs email_enabled and a
\* customer_email, sms needs sms_enabled, the Twilio credentials and a
\* customer_phone.
C6_AttemptOnlyOnEnabledChannel ==
    \A b \in BookingIds, ch \in Channels :
        (\/ sends[<<b, ch>>].n > 0
         \/ HasLogEntry(b, ch)
         \/ \E i \in Instances :
               /\ run[i].pc \in (IF ch = "email" THEN {"email_send", "email_log"}
                                             ELSE {"sms_send", "sms_log"})
               /\ run[i].cands[run[i].bidx] = b) => ClaimEnabled(b, ch)

\* C6 witness: a run without error had booking 2, which has no customer_email,
\* as a candidate while its tenant has email enabled; no email was attempted
\* and no entry written.
C6_Witness ==
    /\ AllIdle /\ runNo >= 1 /\ faults = 0
    /\ cand[2] >= 1
    /\ ~bookings[2].customer_email
    /\ ClaimFlags(1).email_enabled
    /\ sends[<<2, "email">>].n = 0
    /\ ~HasLogEntry(2, "email")

\* C7: the bookings a run works on, and the bookings it writes ReminderLog
\* entries for, are confirmed bookings of the tenant being processed whose
\* start_at lies in [now+h, now+h+5min), h being the tenant's
\* reminder_hours_before or 24 when unset or zero; no send is ever attempted
\* for a booking that is not confirmed.
C7_OnlyConfirmedInWindow ==
    /\ \A i \in Instances : \A k \in 1..Len(run[i].cands) :
          ClaimInWindow(run[i].cands[k], tenant_ids[run[i].tidx], run[i].now)
    /\ \A k \in 1..Len(reminderLog) :
          ClaimInWindow(reminderLog[k].booking_id, reminderLog[k].tenant_id,
                        reminderLog[k].sent_at)
    /\ \A key \in BookingIds \X Channels :
          sends[key].n > 0 => bookings[key[1]].status = "confirmed"

\* C7 witness: a tenant whose reminder_hours_before is unset or zero; the first
\* run wrote an entry for a booking starting exactly at its win_start (24 hours
\* ahead), and did not select booking 3, which starts exactly at win_end, nor
\* booking 2, which lies in the window but is not confirmed.
C7_Witness ==
    /\ AllIdle /\ runNo = 1 /\ faults = 0
    /\ settings[1] # None
    /\ ClaimHours(1) = 24
    /\ \E k \in 1..Len(reminderLog) :
          /\ reminderLog[k].booking_id = 1
          /\ bookings[1].start_at = reminderLog[k].sent_at + 60 * 24
    /\ bookings[2].status # "confirmed" /\ cand[2] = 0
    /\ cand[3] = 0 /\ processed[2] = 1

(***************************************************************************)
(* Properties of create_experiment                                         *)
(***************************************************************************)
RECURSIVE ClaimAllocSum(_)
\* the sum of traffic_allocation over a list of variants
ClaimAllocSum(vs) ==
    IF vs = <<>> THEN 0 ELSE vs[1].traffic_allocation + ClaimAllocSum(Tail(vs))

\* the last call was a call of create_experiment, direct or through the route
ClaimCreateCalled == lastCall.op \in {"create_experiment", "api_create_experiment"}

\* C8 (as claimed): the traffic_allocation of the variants of every persisted
\* experiment sums to 1.0 within 0.001 (12000 units within 12), whatever the
\* lengths of the three lists were.
C8_PersistedAllocationSumsToOne ==
    \A id \in DOMAIN experiments :
        /\ ClaimAllocSum(experiments[id].variants) - 12000 <= 12
        /\ 12000 - ClaimAllocSum(experiments[id].variants) <= 12

\* C9 (as claimed): a create_experiment call with fewer than 2 variant names, or
\* with name and description lists of different lengths, fails; every persisted
\* experiment has at least 2 variants.
C9_TooFewOrMismatchedRejected ==
    /\ (ClaimCreateCalled /\ (lastCall.n < 2 \/ lastCall.n # lastCall.d)) => ~lastCall.ok
    /\ \A id \in DOMAIN experiments : Len(experiments[id].variants) >= 2

\* C10: create_experiment with N variant names, one description for each and no
\* traffic_allocation succeeds and persists a DRAFT experiment with exactly N
\* variants in the given order, each with traffic_allocation 1/N and zeroed
\* counters, pairwise distinct variant ids, no winner and no significance.
C10_EqualSplitDraft ==
    (/\ ClaimCreateCalled
     /\ ~lastCall.alloc_given
     /\ lastCall.d = lastCall.n
     /\ \/ lastCall.op = "create_experiment" /\ lastCall.n >= 1
        \/ lastCall.op = "api_create_experiment" /\ lastCall.n >= 2 /\ lastCall.name # "")
    => /\ lastCall.ok
       /\ lastCall.id \in DOMAIN experiments
       /\ LET e == experiments[lastCall.id] IN
          /\ e.id = lastCall.id
          /\ e.status = "draft"
          /\ e.winner = None
          /\ e.statistical_significance = None
          /\ Len(e.variants) = lastCall.n
          /\ \A k \in 1..Len(e.variants) :
                /\ e.variants[k].name = VariantNamePool[k]
                /\ e.variants[k].traffic_allocation * lastCall.n = 12000
                /\ e.variants[k].impressions = 0
                /\ e.variants[k].conversions = 0
                /\ e.variants[k].revenue = 0
          /\ \A j, k \in 1..Len(e.variants) :
                j # k => e.variants[j].id # e.variants[k].id

\* C10 witness: a direct call with two variant names and no traffic_allocation
\* persisted a DRAFT experiment whose two variants have 0.5 each.
C10_Witness ==
    /\ lastCall.op = "create_experiment" /\ lastCall.ok
    /\ lastCall.n = 2 /\ lastCall.d = 2 /\ ~lastCall.alloc_given
    /\ experiments[lastCall.id].status = "draft"
    /\ Len(experiments[lastCall.id].variants) = 2
    /\ experiments[lastCall.id].variants[1].traffic_allocation = 6000
    /\ experiments[lastCall.id].variants[2].traffic_allocation = 6000

\* C11 (as claimed): the experiment that a successful create_experiment call
\* persists carries as its name the name argument of the call, whatever the
\* list of variant names.
C11_NameIsCallersName ==
    (ClaimCreateCalled /\ lastCall.ok) =>
        /\ lastCall.id \in DOMAIN experiments
        /\ experiments[lastCall.id].name = lastCall.name

(***************************************************************************)
(* Properties of the engine's lifecycle, counters and results              *)
(***************************************************************************)
\* the operations that look an experiment up by its id
ClaimLookupOps ==
    {"start_experiment", "pause_experiment", "complete_experiment",
     "record_impression", "record_conversion", "get_experiment", "get_results"}

ClaimRecordOps == {"record_impression", "record_conversion"}

\* the variant of experiment e that has the id vid, 0 when there is none
ClaimVariantIndex(e, vid) ==
    IF \E k \in 1..Len(e.variants) : e.variants[k].id = vid
    THEN CHOOSE k \in 1..Len(e.variants) : e.variants[k].id = vid
    ELSE 0

\* the counters and derived rates of two variants agree
ClaimSameMetrics(v, w) ==
    /\ v.impressions = w.impressions
    /\ v.conversions = w.conversions
    /\ v.revenue = w.revenue
    /\ v.conversion_rate = w.conversion_rate
    /\ v.revenue_per_visitor = w.revenue_per_visitor

\* C12: each of the seven operations, called with an experiment id that has no
\* persisted record, fails with the not-found error (ValueError), creates no
\* record for that id and leaves every persisted experiment as it was.
C12_MissingIdFailsAndWritesNothing ==
    [][(lastCall'.op \in ClaimLookupOps /\ ~(lastCall'.id \in DOMAIN experiments)) =>
          /\ ~lastCall'.ok
          /\ lastCall'.error = "ValueError"
          /\ ~(lastCall'.id \in DOMAIN experiments')
          /\ experiments' = experiments]_vars

\* C12 witness: record_conversion with an unknown experiment id has just failed
\* with ValueError on a store whose two experiments are still there, the first
\* of them running with an impression recorded.
C12_Witness ==
    /\ lastCall.op = "record_conversion"
    /\ ~lastCall.ok /\ lastCall.error = "ValueError"
    /\ ~(lastCall.id \in DOMAIN experiments)
    /\ Len(experiments) = 2
    /\ experiments[1].status = "running"
    /\ experiments[1].variants[1].impressions = 1

\* C13: record_impression and record_conversion on an existing experiment with
\* a variant_id that none of its variants has raise no error and leave every
\* variant's impressions, conversions, revenue and derived rates, and the
\* experiment's status, winner and statistical_significance, unchanged.
C13_UnknownVariantIsNoOp ==
    [][(/\ lastCall'.op \in ClaimRecordOps
        /\ lastCall'.id \in DOMAIN experiments
        /\ ClaimVariantIndex(experiments[lastCall'.id], lastCall'.variant_id) = 0) =>
          /\ lastCall'.ok
          /\ DOMAIN experiments' = DOMAIN experiments
          /\ LET old == experiments[lastCall'.id]
                 new == experiments'[lastCall'.id]
             IN /\ Len(new.variants) = Len(old.variants)
                /\ \A k \in 1..Len(old.variants) :
                      ClaimSameMetrics(new.variants[k], old.variants[k])
                /\ new.status = old.status
                /\ new.winner = old.winner
                /\ new.statistical_significance = old.statistical_significance]_vars

\* C13 witness: record_conversion with revenue for variant_2 of a two-variant
\* experiment has returned; the experiment is still paused and its second
\* variant still holds the impression and the conversion recorded before, with
\* no revenue.
C13_Witness ==
    /\ lastCall.op = "record_conversion" /\ lastCall.ok
    /\ lastCall.revenue = 250
    /\ lastCall.id \in DOMAIN experiments
    /\ LET e == experiments[lastCall.id] IN
       /\ Len(e.variants) = 2
       /\ lastCall.variant_id = 2
       /\ ClaimVariantIndex(e, lastCall.variant_id) = 0
       /\ e.status = "paused"
       /\ e.variants[2].impressions = 1
       /\ e.variants[2].conversions = 1
       /\ e.variants[2].revenue = 0

\* the parts of an experiment that recording on one of its variants leaves alone
ClaimFrame(new, old, k) ==
    /\ Len(new.variants) = Len(old.variants)
    /\ \A j \in 1..Len(old.variants) :
          j # k => ClaimSameMetrics(new.variants[j], old.variants[j])
    /\ new.status = old.status
    /\ new.start_date = old.start_date
    /\ new.end_date = old.end_date
    /\ new.winner = old.winner
    /\ new.statistical_significance = old.statistical_significance

\* C14: calls being made one after the other, record_impression(e, v) adds
\* exactly 1 to the impressions of variant v of e, and record_conversion(e, v, r)
\* adds exactly 1 to its conversions and r to its revenue; each leaves the other
\* counters of v, the counters of every other variant, the status, dates, winner
\* and statistical_significance of e, and every other experiment unchanged.
C14_RecordingChangesOneCounter ==
    [][(/\ lastCall'.op \in ClaimRecordOps
        /\ lastCall'.id \in DOMAIN experiments
        /\ ClaimVariantIndex(experiments[lastCall'.id], lastCall'.variant_id) # 0) =>
          /\ lastCall'.ok
          /\ DOMAIN experiments' = DOMAIN experiments
          /\ \A other \in DOMAIN experiments :
                other # lastCall'.id => experiments'[other] = experiments[other]
          /\ LET old == experiments[lastCall'.id]
                 new == experiments'[lastCall'.id]
                 k == ClaimVariantIndex(old, lastCall'.variant_id)
             IN /\ ClaimFrame(new, old, k)
                /\ IF lastCall'.op = "record_impression"
                   THEN /\ new.variants[k].impressions = old.variants[k].impressions + 1
                        /\ new.variants[k].conversions = old.variants[k].conversions
                        /\ new.variants[k].revenue = old.variants[k].revenue
                   ELSE /\ new.variants[k].impressions = old.variants[k].impressions
                        /\ new.variants[k].conversions = old.variants[k].conversions + 1
                        /\ new.variants[k].revenue =
                              old.variants[k].revenue + lastCall'.revenue]_vars

\* C14 witness: the second record_conversion with revenue 2.50 on variant_1 of a
\* completed experiment has returned: that variant has 2 conversions and 5.00
\* revenue, the other variant has its one impression and nothing else, and the
\* second experiment is as it was created.
C14_Witness ==
    /\ lastCall.op = "record_conversion" /\ lastCall.ok
    /\ lastCall.id = 1 /\ lastCall.variant_id = 1 /\ lastCall.revenue = 250
    /\ Len(experiments) = 2
    /\ experiments[1].status = "completed"
    /\ experiments[1].variants[2].conversions = 2
    /\ experiments[1].variants[2].revenue = 500
    /\ experiments[1].variants[2].impressions = 0
    /\ experiments[1].variants[1].impressions = 1
    /\ experiments[1].variants[1].conversions = 0
    /\ experiments[2].status = "draft"
    /\ \A k \in 1..Len(experiments[2].variants) :
          experiments[2].variants[k].impressions = 0

\* C15: in every persisted state that create, start, pause, complete,
\* record_impression and record_conversion can reach, every variant has
\* conversion_rate = 0 when its impressions are 0, and otherwise
\* conversion_rate = 100 * conversions / impressions (here: to within one unit
\* of 1/12000 percent).
C15_ConversionRateIsDerived ==
    \A id \in DOMAIN experiments :
        \A k \in 1..Len(experiments[id].variants) :
            LET v == experiments[id].variants[k] IN
            IF v.impressions = 0 THEN v.conversion_rate = 0
            ELSE /\ v.conversion_rate * v.impressions <= 100 * 12000 * v.conversions
                 /\ 100 * 12000 * v.conversions < (v.conversion_rate + 1) * v.impressions

\* C15 witness: an impression has just been recorded on a variant that had two
\* conversions and no impression: its rate, 0 until then, is now 200 percent,
\* while another variant with a conversion and no impression has rate 0.
C15_Witness ==
    /\ lastCall.op = "record_impression" /\ lastCall.ok
    /\ lastCall.id \in DOMAIN experiments
    /\ LET e == experiments[lastCall.id]
           k == ClaimVariantIndex(e, lastCall.variant_id)
       IN /\ k # 0
          /\ e.variants[k].impressions = 1
          /\ e.variants[k].conversions = 2
          /\ e.variants[k].conversion_rate = 200 * 12000
          /\ \E j \in 1..Len(e.variants) :
                /\ e.variants[j].impressions = 0
                /\ e.variants[j].conversions = 1
                /\ e.variants[j].conversion_rate = 0

\* C16: get_results leaves the persisted experiments (stored winner and
\* statistical_significance included) as they are, and returns the winner and
\* the significance that the last get_results on that experiment returned when
\* no impression or conversion was recorded on it in between.
C16_GetResultsReadOnlyAndRepeatable ==
    [][(lastCall'.op = "get_results" /\ lastCall'.id \in DOMAIN experiments) =>
          /\ lastCall'.ok
          /\ experiments' = experiments
          /\ lastResults[lastCall'.id] # None =>
                /\ lastCall'.result[1].winner = lastResults[lastCall'.id][1].winner
                /\ lastCall'.result[1].statistical_significance =
                      lastResults[lastCall'.id][1].statistical_significance]_vars

\* C16 witness: get_results has just returned a winner and a significance for
\* a completed experiment whose stored winner and significance are still none
\* (it was completed before its sample size was met).
C16_Witness ==
    /\ lastCall.op = "get_results" /\ lastCall.ok
    /\ lastCall.result[1].winner # None
    /\ lastCall.result[1].statistical_significance # None
    /\ experiments[lastCall.id].status = "completed"
    /\ experiments[lastCall.id].winner = None
    /\ experiments[lastCall.id].statistical_significance = None

\* some variant of e has fewer impressions than minimum_sample_size
ClaimBelowSample(e) ==
    \E k \in 1..Len(e.variants) : e.variants[k].impressions < e.minimum_sample_size

\* C17: winner determination, in get_results and in complete_experiment, yields
\* no winner and no significance whenever some variant, the first two or a
\* later one, has impressions < minimum_sample_size, and get_results then
\* reports sample_size_met = false and is_significant = false; when every
\* variant has impressions >= minimum_sample_size (of at least 2 variants, with
\* minimum_sample_size >= 1) a winner and a significance are returned.
C17_WinnerOnlyWhenSampleMet ==
    /\ (lastCall.op = "get_results" /\ lastCall.ok) =>
          LET e == experiments[lastCall.id]
              r == lastCall.result[1]
          IN /\ ClaimBelowSample(e) =>
                   /\ r.winner = None /\ r.statistical_significance = None
                   /\ ~r.sample_size_met /\ ~r.is_significant
             /\ (~ClaimBelowSample(e) /\ Len(e.variants) >= 2
                   /\ e.minimum_sample_size >= 1) =>
                   /\ r.winner # None /\ r.statistical_significance # None
                   /\ r.sample_size_met
    /\ (lastCall.op = "complete_experiment" /\ lastCall.ok) =>
          LET e == experiments[lastCall.id]
          IN /\ ClaimBelowSample(e) =>
                   e.winner = None /\ e.statistical_significance = None
             /\ (~ClaimBelowSample(e) /\ Len(e.variants) >= 2
                   /\ e.minimum_sample_size >= 1) =>
                   e.winner # None /\ e.statistical_significance # None

\* C17 witness: get_results on a three-variant experiment whose first two
\* variants have met the sample size and differ in rate, while the third has no
\* impression: no winner, no significance, sample_size_met = false.
C17_Witness ==
    /\ lastCall.op = "get_results" /\ lastCall.ok
    /\ LET e == experiments[lastCall.id] IN
       /\ Len(e.variants) = 3
       /\ e.variants[1].impressions >= e.minimum_sample_size
       /\ e.variants[2].impressions >= e.minimum_sample_size
       /\ e.variants[1].conversions = 1
       /\ e.variants[2].conversions = 0
       /\ e.variants[3].impressions = 0
    /\ lastCall.result[1].winner = None
    /\ lastCall.result[1].statistical_significance = None
    /\ ~lastCall.result[1].sample_size_met

\* the winner the claim names: the first variant if its conversion_rate is
\* strictly greater than the second's, otherwise the second
ClaimWinner(e) ==
    IF e.variants[1].conversion_rate > e.variants[2].conversion_rate
    THEN e.variants[1].id ELSE e.variants[2].id

\* C18: a winner that get_results returns or complete_experiment stores is one
\* of the first two variants, whatever the counters of later variants: the first
\* if and only if its conversion_rate is strictly greater than the second's,
\* otherwise (a tie included) the second.
C18_WinnerAmongFirstTwo ==
    /\ (lastCall.op = "get_results" /\ lastCall.ok /\ lastCall.result[1].winner # None) =>
          lastCall.result[1].winner[1] = ClaimWinner(experiments[lastCall.id])
    /\ (lastCall.op = "complete_experiment" /\ lastCall.ok
          /\ experiments[lastCall.id].winner # None) =>
          experiments[lastCall.id].winner[1] = ClaimWinner(experiments[lastCall.id])

\* C18 witness: three variants with one impression each; the first two have no
\* conversion (a tie at rate 0), the third has one (rate 100 percent):
\* get_results names the second variant, variant_1, the winner.
C18_Witness ==
    /\ lastCall.op = "get_results" /\ lastCall.ok
    /\ LET e == experiments[lastCall.id] IN
       /\ Len(e.variants) = 3
       /\ \A k \in 1..3 : e.variants[k].impressions = 1
       /\ e.variants[1].conversions = 0
       /\ e.variants[2].conversions = 0
       /\ e.variants[3].conversions = 1
       /\ e.variants[3].conversion_rate > e.variants[2].conversion_rate
       /\ e.variants[2].id = 1
    /\ lastCall.result[1].winner = <<1>>

\* ---------------------------------------------------------------------------
\* Properties of the significance test
\* ---------------------------------------------------------------------------

\* the lookup was applied to chi_squared = h hundredths and gave p-value p
\* (thousandths), that is significance 1 - p
ClaimLookupGave(h, p) ==
    (lastCall.op = "chi_squared_p_value" /\ lastCall.chi_squared = h) =>
        /\ lastCall.p_value = p
        /\ lastCall.confidence = <<1000 - p>>

\* C19 as stated: chi_squared = 3.84 gives significance 0.95 (p = 0.05),
\* chi_squared = 3.83 gives significance 0.50 (p = 0.50), and chi_squared =
\* 10.83 gives significance 0.999.
C19_BoundariesAsStated ==
    /\ ClaimLookupGave(384, 50)
    /\ ClaimLookupGave(383, 500)
    /\ ClaimLookupGave(1083, 1)

\* C19, amended: chi_squared = 3.84 gives significance 0.95 (p = 0.05),
\* chi_squared = 3.83 gives significance 0.90 (p = 0.10, the 2.71 bucket), and
\* chi_squared = 10.83 gives significance 0.999.
C19_Boundaries ==
    /\ ClaimLookupGave(384, 50)
    /\ ClaimLookupGave(383, 100)
    /\ ClaimLookupGave(1083, 1)

\* C19 witness: the lookup has been applied to chi_squared = 3.83, just below
\* the 3.84 critical value, and gave significance 0.90.
C19_Witness ==
    /\ lastCall.op = "chi_squared_p_value"
    /\ lastCall.chi_squared = 383
    /\ lastCall.p_value = 100
    /\ lastCall.confidence = <<900>>

\* get_results was called after 120 impressions / 20 conversions on the first
\* variant and 120 impressions / 10 conversions on the second, with
\* minimum_sample_size = 100 and confidence_level = 0.95
ClaimScenario ==
    /\ lastCall.op = "get_results" /\ lastCall.ok
    /\ lastCall.recorded = <<120, 20, 120, 10>>
    /\ experiments[1].minimum_sample_size = 100
    /\ experiments[1].confidence_level = 950

\* what the scenario yields apart from the value of the statistic: the sample
\* size is met, the first variant wins, the statistic lies in the 2.71-3.84
\* bucket, the significance is 0.90 and is_significant is false
ClaimScenarioVerdict ==
    /\ lastCall.result[1].sample_size_met
    /\ lastCall.result[1].winner = <<experiments[1].variants[1].id>>
    /\ lastCall.chi.chi_squared # None
    /\ 271 * lastCall.chi.chi_squared[1].den <= 100 * lastCall.chi.chi_squared[1].num
    /\ 100 * lastCall.chi.chi_squared[1].num < 384 * lastCall.chi.chi_squared[1].den
    /\ lastCall.result[1].statistical_significance = <<900>>
    /\ ~lastCall.result[1].is_significant

\* the statistic of the last call, rounded to two decimals, is h hundredths
ClaimChiRoundsTo(h) ==
    /\ lastCall.chi.chi_squared # None
    /\ (10 * h - 5) * lastCall.chi.chi_squared[1].den <= 1000 * lastCall.chi.chi_squared[1].num
    /\ 1000 * lastCall.chi.chi_squared[1].num < (10 * h + 5) * lastCall.chi.chi_squared[1].den

\* C20 as stated: in the scenario sample_size_met is true, the winner is the
\* first variant, the chi-squared statistic is about 3.72 and falls in the
\* 2.71-3.84 bucket, the significance is 0.90 and is_significant is false.
C20_ScenarioAsStated ==
    ClaimScenario => (ClaimScenarioVerdict /\ ClaimChiRoundsTo(372))

\* C20, amended: in the scenario sample_size_met is true, the winner is the
\* first variant, the chi-squared statistic is 80/21, about 3.81, and falls in
\* the 2.71-3.84 bucket, the significance is 0.90 and is_significant is false.
C20_Scenario ==
    ClaimScenario =>
        /\ ClaimScenarioVerdict
        /\ ClaimChiRoundsTo(381)
        /\ 21 * lastCall.chi.chi_squared[1].num = 80 * lastCall.chi.chi_squared[1].den

\* C20 witness: get_results has been called in the scenario and returned
\* significance 0.90 for a statistic of about 3.81.
C20_Witness ==
    /\ ClaimScenario
    /\ experiments[1].variants[1].impressions = 120
    /\ experiments[1].variants[1].conversions = 20
    /\ experiments[1].variants[2].impressions = 120
    /\ experiments[1].variants[2].conversions = 10
    /\ ClaimChiRoundsTo(381)
    /\ lastCall.result[1].statistical_significance = <<900>>

\* ---------------------------------------------------------------------------
\* Properties of the lifecycle while time passes
\* ---------------------------------------------------------------------------

\* the last call was op on an experiment that had a persisted record
ClaimCalledOnExisting(op) == lastCall.op = op /\ lastCall.before # None

\* C21: complete_experiment on an existing experiment persists status
\* "completed", sets end_date to the time of the call, leaves the counters as
\* they were, stores no winner and no significance when some variant is below
\* minimum_sample_size, and a get_results call that comes next returns as
\* winner and significance exactly the stored pair.
C21_CompleteStoresTheDeterminedPair ==
    /\ [](ClaimCalledOnExisting("complete_experiment") =>
            LET e == experiments[lastCall.id] IN
            /\ lastCall.ok
            /\ e.status = "completed"
            /\ e.end_date = <<lastCall.at>>
            /\ e.variants = lastCall.before[1].variants
            /\ ClaimBelowSample(lastCall.before[1]) =>
                  (e.winner = <<>> /\ e.statistical_significance = <<>>))
    /\ [][(/\ ClaimCalledOnExisting("complete_experiment")
           /\ lastCall'.op = "get_results"
           /\ lastCall'.id = lastCall.id) =>
             /\ lastCall'.ok
             /\ lastCall'.result[1].winner = experiments[lastCall.id].winner
             /\ lastCall'.result[1].statistical_significance =
                   experiments[lastCall.id].statistical_significance]_vars

\* C21 witness: get_results has been called on an experiment completed at
\* minute 2 with a winner whose significance 0.50 is below the confidence
\* level, and has returned the stored winner and significance.
C21_Witness ==
    /\ lastCall.op = "get_results" /\ lastCall.ok
    /\ lastCall.before # None
    /\ lastCall.before[1].status = "completed"
    /\ lastCall.before[1].end_date = <<2>>
    /\ lastCall.before[1].winner = <<0>>
    /\ lastCall.before[1].statistical_significance = <<500>>
    /\ lastCall.result[1].winner = lastCall.before[1].winner
    /\ lastCall.result[1].statistical_significance =
          lastCall.before[1].statistical_significance
    /\ ~lastCall.result[1].is_significant

\* C22: start_experiment on an experiment that already has a start_date sets
\* status to "running" and leaves start_date as it was.
C22_StartKeepsStartDate ==
    (ClaimCalledOnExisting("start_experiment") /\ lastCall.before[1].start_date # <<>>) =>
        /\ experiments[lastCall.id].status = "running"
        /\ experiments[lastCall.id].start_date = lastCall.before[1].start_date

\* the status each lifecycle operation sets
ClaimTarget ==
    [start_experiment |-> "running", pause_experiment |-> "paused",
     complete_experiment |-> "completed"]

\* C23: on an existing experiment start_experiment, pause_experiment and
\* complete_experiment succeed whatever the status was and set it to
\* "running", "paused" and "completed"; no experiment ever has status
\* "archived".
C23_NoTransitionRejected ==
    /\ \A op \in DOMAIN ClaimTarget :
          ClaimCalledOnExisting(op) =>
              /\ lastCall.ok
              /\ experiments[lastCall.id].status = ClaimTarget[op]
    /\ \A id \in DOMAIN experiments :
          experiments[id].status \in {"draft", "running", "paused", "completed"}

\* C23 witness: start_experiment has been called on a completed experiment,
\* which is now running.
C23_Witness ==
    /\ ClaimCalledOnExisting("start_experiment") /\ lastCall.ok
    /\ lastCall.before[1].status = "completed"
    /\ experiments[lastCall.id].status = "running"

\* the operations that leave the stored result alone
ClaimNotCompleting ==
    {"start_experiment", "pause_experiment", "record_impression", "record_conversion",
     "get_results"}

\* C27: a created experiment has no stored winner and no stored significance,
\* and start_experiment, pause_experiment, record_impression, record_conversion
\* and get_results leave the stored winner and statistical_significance as they
\* were.
C27_ResultWrittenOnlyByComplete ==
    /\ lastCall.op = "none" =>
          \A id \in DOMAIN experiments :
              experiments[id].winner = <<>> /\ experiments[id].statistical_significance = <<>>
    /\ \A op \in ClaimNotCompleting :
          ClaimCalledOnExisting(op) =>
              /\ experiments[lastCall.id].winner = lastCall.before[1].winner
              /\ experiments[lastCall.id].statistical_significance =
                    lastCall.before[1].statistical_significance

\* C27 witness: a completed experiment with a stored winner has been started
\* again and still has that winner and its significance.
C27_Witness ==
    /\ ClaimCalledOnExisting("start_experiment") /\ lastCall.ok
    /\ lastCall.before[1].status = "completed"
    /\ lastCall.before[1].winner # <<>>
    /\ lastCall.before[1].statistical_significance # <<>>
    /\ experiments[lastCall.id].status = "running"
    /\ experiments[lastCall.id].winner = lastCall.before[1].winner
    /\ experiments[lastCall.id].statistical_significance =
          lastCall.before[1].statistical_significance

\* ---------------------------------------------------------------------------
\* Properties of the rate limiter
\* ---------------------------------------------------------------------------

ClaimLiveEntry(store, identifier, route, now) ==
    LET key == <<"ratelimit", ":">> \o identifier \o <<":">> \o route
    IN IF key \in DOMAIN store /\ ~(store[key].expires < now) THEN <<store[key]>> ELSE <<>>

\* what is_allowed would answer (identifier, route) on a store at time now
ClaimOutcome(store, identifier, route, now) ==
    LET r == is_allowed(store, identifier, route, RouteLimits(route).limit,
                        RouteLimits(route).window, now)
    IN <<r.allowed, r.info.remaining>>

\* C25: a call of is_allowed for one identifier leaves, for every other
\* identifier on the same route, the entry that counts (count and expiry) as it
\* was, and with it the allowed / remaining answer that identifier would get.
C25_LimitsArePerIdentifier ==
    [][(requests'.total # requests.total) =>
          \A other \in Identifiers \ {requests'.last.identifier} :
              LET route == requests'.last.route IN
              /\ ClaimLiveEntry(memory_store', other, route, clock) =
                    ClaimLiveEntry(memory_store, other, route, clock)
              /\ ClaimOutcome(memory_store', other, route, clock) =
                    ClaimOutcome(memory_store, other, route, clock)]_vars

\* C25 witness: user-1 has used up the limit of api_test, and the first call
\* of user-2 on api_test in the same second has been allowed with
\* remaining = limit - 1.
C25_Witness ==
    /\ requests.last.op = "is_allowed"
    /\ requests.last.identifier = <<"user-2">>
    /\ requests.last.route = <<"api_test">>
    /\ requests.last.allowed
    /\ requests.last.n = 1
    /\ requests.last.info.remaining = 1
    /\ ClaimLiveEntry(memory_store, <<"user-1">>, <<"api_test">>, clock) # <<>>
    /\ ClaimLiveEntry(memory_store, <<"user-1">>, <<"api_test">>, clock)[1].count = 2
    /\ ClaimOutcome(memory_store, <<"user-1">>, <<"api_test">>, clock) = <<FALSE, 0>>

\* ---------------------------------------------------------------------------
\* Properties of concurrent recordings
\* ---------------------------------------------------------------------------

\* what a call adds to the impressions and to the conversions of variant k
ClaimAdds(c, k, counter) ==
    IF c.seen[1].variants[k].id = c.variant_id
       /\ c.op = (IF counter = "impressions" THEN "record_impression" ELSE "record_conversion")
    THEN 1 ELSE 0

\* the calls that have returned
ClaimCompleted == {p \in DOMAIN callers : callers[p].pc = "done"}

\* C26: the save of a record_impression / record_conversion call replaces the
\* persisted record by the record that call loaded plus its own single
\* increment, whatever was saved since it loaded: the increments that other
\* calls saved in between are overwritten, on the same and on other variants.
C26_LastSaveWins ==
    [][\A p \in DOMAIN callers :
          (callers[p].pc = "loaded" /\ callers'[p].pc = "done") =>
              LET c == callers[p]
                  new == experiments'[c.id]
              IN \A k \in DOMAIN new.variants :
                    /\ new.variants[k].impressions =
                          c.seen[1].variants[k].impressions + ClaimAdds(c, k, "impressions")
                    /\ new.variants[k].conversions =
                          c.seen[1].variants[k].conversions + ClaimAdds(c, k, "conversions")]_vars

\* C26 witness: two record_impression calls on different variants of one
\* experiment have both returned, and the persisted record holds one
\* impression in all: one variant's counter has grown by 0 after 1 call.
C26_Witness ==
    /\ Cardinality(ClaimCompleted) = 2
    /\ \A p \in ClaimCompleted : callers[p].op = "record_impression" /\ callers[p].id = 1
    /\ \E p, q \in ClaimCompleted : callers[p].variant_id # callers[q].variant_id
    /\ experiments[1].variants[1].impressions + experiments[1].variants[2].impressions = 1
    /\ \E k \in 1..2 : experiments[1].variants[k].impressions = 0

\* ---------------------------------------------------------------------------
\* The reminder scheduler under crashes and concurrent instances
\* ---------------------------------------------------------------------------

\* the lookup step of the block of channel ch for booking b by instance i:
\* instance i moves on from the lookup and nothing went wrong in the step
ClaimLookupStep(i, b, ch) ==
    /\ run[i].pc = ch
    /\ run[i].cands[run[i].bidx] = b
    /\ run'[i] # run[i]
    /\ run'[i].pc # "idle"
    /\ faults' = faults
    /\ incidents' = incidents

\* the send step of the block of channel ch for booking b by instance i
ClaimSendStep(i, b, ch) ==
    /\ run[i].pc = IF ch = "email" THEN "email_send" ELSE "sms_send"
    /\ run[i].cands[run[i].bidx] = b
    /\ run'[i] # run[i]
    /\ faults' = faults
    /\ incidents' = incidents

\* instance i is about to send on channel ch
ClaimAtSend(i, ch) == run[i].pc = IF ch = "email" THEN "email_send" ELSE "sms_send"

\* C28: a crash between a successful send and the ReminderLog insert leaves no
\* entry for that booking and channel, none appears before the reminder is
\* sent again, and a following run whose window still contains the booking
\* passes the lookup and sends the reminder once more.
C28_CrashAfterSendResends ==
    /\ [](\A key \in incidents.crashed :
            sends[key].n = 1 => ~HasLogEntry(key[1], key[2]))
    /\ [][\A i \in DOMAIN run : \A key \in incidents.crashed :
            /\ (/\ ClaimLookupStep(i, key[1], key[2])
                /\ ClaimInWindow(key[1], bookings[key[1]].tenant_id, run[i].now)
                /\ ClaimEnabled(key[1], key[2])
                /\ ~HasLogEntry(key[1], key[2])) => ClaimAtSend(i, key[2])'
            /\ ClaimSendStep(i, key[1], key[2]) =>
                  sends'[key].n = sends[key].n + 1]_vars

\* C28 witness: the scheduler died after the email reminder of booking 1 was
\* sent and before it was recorded; the following run found the booking in
\* its window and the email went out a second time.
C28_Witness ==
    /\ <<1, "email">> \in incidents.crashed
    /\ sends[<<1, "email">>].n = 2
    /\ sends[<<1, "email">>].last = "sent"
    /\ sends[<<1, "email">>].run = 2
    /\ \E i \in DOMAIN run :
          /\ run[i].pc = "email_log"
          /\ ClaimInWindow(1, 1, run[i].now)

\* instance j has passed the lookup for booking b on channel ch and has not
\* yet recorded the reminder
ClaimInFlight(j, b, ch) ==
    /\ run[j].pc \in (IF ch = "email" THEN {"email_send", "email_log"}
                                       ELSE {"sms_send", "sms_log"})
    /\ run[j].cands[run[j].bidx] = b

\* C29: while one scheduler instance is between its lookup and its insert for
\* a booking and channel, the lookup of another instance for the same booking
\* and channel, with the channel enabled and no entry recorded yet, passes as
\* well, and the send step that follows sends the reminder again.
C29_ConcurrentInstancesBothSend ==
    [][\A i \in DOMAIN run : \A j \in DOMAIN run \ {i} : \A key \in BookingIds \X Channels :
          ClaimInFlight(j, key[1], key[2]) =>
            /\ (/\ ClaimLookupStep(i, key[1], key[2])
                /\ ClaimEnabled(key[1], key[2])
                /\ ~HasLogEntry(key[1], key[2])) => ClaimAtSend(i, key[2])'
            /\ ClaimSendStep(i, key[1], key[2]) =>
                  sends'[key].n = sends[key].n + 1]_vars

\* C29 witness: both instances have passed the lookup for the sms reminder of
\* booking 1 and have sent it, and neither has recorded it yet.
C29_Witness ==
    /\ \A i \in DOMAIN run : run[i].pc = "sms_log" /\ run[i].cands[run[i].bidx] = 1
    /\ Cardinality(DOMAIN run) = 2
    /\ sends[<<1, "sms">>].n = 2
    /\ sends[<<1, "sms">>].last = "sent"
    /\ ~HasLogEntry(1, "sms")

\* the rows of the reminder_logs table with the given key
ClaimRows(bid, channel, kind) ==
    {k \in 1..Len(reminderLog) :
        /\ reminderLog[k].booking_id = bid
        /\ reminderLog[k].channel = channel
        /\ reminderLog[k].kind = kind}

\* a step of instance i from the point where it is about to insert the entry
\* of booking b and channel ch
ClaimInsertStep(i, b, ch) ==
    /\ run[i].pc = IF ch = "email" THEN "email_log" ELSE "sms_log"
    /\ run[i].cands[run[i].bidx] = b
    /\ run'[i] # run[i]

\* C30: whatever the runs, crashes and concurrent instances, the ReminderLog
\* never holds two entries with the same (booking_id, channel, kind), and a
\* step of a run that is about to insert an entry whose key is already in the
\* table leaves the table as it is.
C30_OneEntryPerKey ==
    /\ [](\A b \in BookingIds : \A ch \in Channels : \A kind \in {"before", "after"} :
            Cardinality(ClaimRows(b, ch, kind)) <= 1)
    /\ [][\A i \in DOMAIN run : \A key \in BookingIds \X Channels :
            (/\ ClaimInsertStep(i, key[1], key[2])
             /\ HasLogEntry(key[1], key[2])) => reminderLog' = reminderLog]_vars

\* C30 witness: two instances sent the email reminder of booking 1; one
\* insert was accepted, the other was rejected, and the table holds one entry.
C30_Witness ==
    /\ <<1, "email">> \in incidents.rejected
    /\ sends[<<1, "email">>].n = 2
    /\ Cardinality(ClaimRows(1, "email", "before")) = 1
    /\ incidents.crashes = 0

====
